---- MODULE Spec2Model ----
(***************************************************************************)
(* Detection and incident pipeline of Aegis: scan cycles (background       *)
(* driver and POST /scan/trigger) running the sentinels and the            *)
(* orchestrator on their own store sessions, and the operator's approve    *)
(* and dismiss requests.                                                   *)
(***************************************************************************)
EXTENDS Integers, Sequences, FiniteSets, TLC

\* ------------------------------------------------------------------ bounds
MaxCycles == 2
MaxAnomalies == 2
MaxOps == 2
MaxSla == 4
MaxStart == 4
MaxIterations == 4
MaxDepth == 3
MaxRequests == 4
MaxRefreshes == 2
MaxBroadcasts == 2
MaxTicks == 2

\* --------------------------------------------------------------- constants
Sessions == {"bg", "manual"}
NoSession == "nobody"
Threads == Sessions \cup {"api"}

Severities == {"low", "medium", "high", "critical"}
OpenSet == {"open", "investigating", "pending_review"}
Terminal == {"resolved", "dismissed"}

Null == <<>>
Now == <<"now">>

\* monitored tables of the one active connection, in store order
TableIds == {1, 2}
CheckTypes(t) == IF t = 1 THEN {"freshness"} ELSE {"schema", "freshness"}
FreshnessSla(t) == IF t = 1 THEN 60 ELSE 30

\* column lists the warehouse may return from fetch_schema
ColId == [name |-> "id", type |-> "INTEGER", nullable |-> FALSE]
ColPrice == [name |-> "price", type |-> "FLOAT", nullable |-> TRUE]
ColQty == [name |-> "qty", type |-> "INTEGER", nullable |-> FALSE]
SchemaList == << <<ColId, ColPrice>>, <<ColId>>, <<ColId, ColQty>> >>
Schemas == {SchemaList[i] : i \in 1..Len(SchemaList)}

\* minutes since last_update the warehouse may report
MinutesChoices == {30, 90, 400}

\* the warehouse is not held unchanged: every fetch may answer anything
Changing == [changing |-> TRUE]

\* an unchanged warehouse: the columns and the age of each table, and
\* whether fetch_schema answers at all (minutes -1: no timestamp to be had)
Warehouses ==
    [columns : {[t \in TableIds |-> IF "schema" \in CheckTypes(t) THEN c
                                    ELSE SchemaList[1]] : c \in Schemas},
     schema_ok : BOOLEAN,
     minutes : [TableIds -> MinutesChoices \cup {-1}]]

\* ----------------------------------------------------------------- state
VARIABLES
    db,        \* committed store: snapshots, anomalies, incidents
    txn,       \* working copy of the session holding the write transaction
    lock,      \* session holding the store's single write transaction
    pc,        \* per session: position in _run_scan_cycle
    pos,       \* per session: index into the cycle's plan of checks
    pend,      \* per session: new_snapshot / last_snapshot locals of inspect
    cur,       \* per session: id of the anomaly returned by the sentinel
    clock,     \* logical time of datetime.now()
    sent,      \* per thread: the messages its latest step broadcast
    lastCall,  \* per session: outcome of the handle_anomaly call just made
    cyc,       \* per session: keys handled by the cycle, overlap with another
    cycles,    \* scan cycles started
    ops,       \* operator requests made
    connector, \* per session: the WarehouseConnector of the cycle
    tally,     \* per session: total_tables and total_anomalies of the cycle
    warehouse, \* what the warehouse answers while it is held unchanged
    driver,    \* _scan_loop: its clock reading and last_lineage_refresh
    fn,        \* a call of a pure helper: its arguments and its result
    notifier,  \* ConnectionManager: its subscribers, the broadcast under way
    lineage,   \* lineage_edges and the wall clock they are stamped with
    registry   \* connections and monitored_tables, the last response given

vars == <<db, txn, lock, pc, pos, pend, cur, clock, sent, lastCall, cyc,
          cycles, ops, connector, tally, warehouse, driver, fn, notifier, lineage, registry>>

\* ------------------------------------------------------------- helpers
Rank(sev) ==
    CASE sev = "critical" -> 4
      [] sev = "high" -> 3
      [] sev = "medium" -> 2
      [] sev = "low" -> 1
      [] OTHER -> 0

MaxOf(S) == CHOOSE x \in S : \A y \in S : y <= x
MinOf(S) == CHOOSE x \in S : \A y \in S : x <= y

\* sha256 of the canonical JSON: an injective digest of the column list
Sha256(cols) == CHOOSE i \in 1..Len(SchemaList) : SchemaList[i] = cols

\* json.dumps(current_columns, sort_keys=True): key order is immaterial,
\* list order is kept
ColumnsJson(cols) == cols

ColNames(cols) == {cols[i].name : i \in 1..Len(cols)}
ColByName(cols, n) == cols[MaxOf({i \in 1..Len(cols) : cols[i].name = n})]

\* the changes of _diff_schemas, as a set of change records
DiffSchemas(old, new) ==
    {[change |-> "column_deleted", column |-> n, nullable |-> TRUE] :
        n \in ColNames(old) \ ColNames(new)}
    \cup
    {[change |-> "column_added", column |-> n,
      nullable |-> ColByName(new, n).nullable] :
        n \in ColNames(new) \ ColNames(old)}
    \cup
    {[change |-> "type_changed", column |-> n, nullable |-> TRUE] :
        n \in {m \in ColNames(old) \cap ColNames(new) :
                 ColByName(old, m).type # ColByName(new, m).type}}

\* variant of the per-change severity: a type change rated medium
ChangeSeverity_TypeAsMedium(c) ==
    IF c.change = "column_deleted" THEN "critical"
    ELSE IF c.change = "column_added"
         THEN (IF c.nullable THEN "low" ELSE "medium")
    ELSE "medium"

\* the severity _classify_severity gives one change
ChangeSeverity(c) ==
    IF c.change = "column_deleted" THEN "critical"
    ELSE IF c.change = "type_changed" THEN "critical"
    ELSE IF c.change = "column_added"
         THEN (IF c.nullable THEN "low" ELSE "medium")
    ELSE "medium"

ClassifySchemaSeverity(changes) ==
    LET sevs == {ChangeSeverity(c) : c \in changes} \cup {"low"}
    IN CHOOSE s \in sevs : \A r \in sevs : Rank(r) <= Rank(s)

\* variant of the ratio thresholds: reached rather than exceeded
ClassifyFreshnessSeverity_AtLeast(minutes_since, sla) ==
    IF minutes_since >= 5 * sla THEN "critical"
    ELSE IF minutes_since >= 2 * sla THEN "high"
    ELSE "medium"

\* FreshnessSentinel._classify_severity: ratio = minutes_since / sla
ClassifyFreshnessSeverity(minutes_since, sla) ==
    IF minutes_since > 5 * sla THEN "critical"
    ELSE IF minutes_since > 2 * sla THEN "high"
    ELSE "medium"

\* variant of the freshness check: a missing timestamp taken for staleness
FreshnessInspect_NoTimestampCheck(sla, minutes_since) ==
    IF sla = 0 THEN <<>>
    ELSE IF minutes_since # -1 /\ minutes_since <= sla THEN <<>>
    ELSE <<[type |-> "freshness_violation",
            severity |-> ClassifyFreshnessSeverity(minutes_since, sla)]>>

\* FreshnessSentinel.inspect without the store: the anomaly it builds, none
\* when the SLA is unset (0), when no timestamp was had (-1), and within
\* the SLA
FreshnessInspect(sla, minutes_since) ==
    IF sla = 0 THEN <<>>
    ELSE IF minutes_since = -1 THEN <<>>
    ELSE IF minutes_since <= sla THEN <<>>
    ELSE <<[type |-> "freshness_violation",
            severity |-> ClassifyFreshnessSeverity(minutes_since, sla)]>>

\* the checks of one cycle in execution order: per table schema, then freshness
FullPlan ==
    [i \in 1..(2 * Cardinality(TableIds)) |->
        [table |-> (i + 1) \div 2,
         check |-> IF i % 2 = 1 THEN "schema" ELSE "freshness"]]
EnabledCheck(p) == p.check \in CheckTypes(p.table)
Plan == SelectSeq(FullPlan, EnabledCheck)

\* what connector.fetch_schema may return for table t, and whether it may
\* raise
FetchSchema(t) ==
    IF warehouse = Changing THEN Schemas ELSE {warehouse.columns[t]}
FetchSchemaRaises ==
    IF warehouse = Changing THEN BOOLEAN ELSE {~warehouse.schema_ok}

\* the minutes_since that fetch_last_update_time and the clock may yield
\* for table t; -1: the connector raised or returned no timestamp
FetchMinutesSince(t) ==
    IF warehouse = Changing THEN MinutesChoices \cup {-1}
    ELSE {warehouse.minutes[t]}

\* the tables whose loop iteration has begun once check p of the plan is
\* reached; all of them once the plan is exhausted
TablesVisitedAt(p) ==
    IF p > Len(Plan) THEN Cardinality(TableIds)
    ELSE Cardinality({t \in TableIds : t <= Plan[p].table})

NoTally == [tables |-> 0, anomalies |-> 0]

\* ------------------------------------------------------------- the store
EmptyStore == [snapshots |-> <<>>, anomalies |-> <<>>, incidents |-> <<>>]

\* what a session's queries see: its own write transaction, else the
\* committed rows
View(s) == IF lock = s THEN txn ELSE db

\* the store serialises writers: a flush that writes needs the write
\* transaction, which one session holds from its first write to its commit
CanWrite(s) == lock \in {NoSession, s}

SnapshotsOf(store, t) ==
    {i \in 1..Len(store.snapshots) : store.snapshots[i].table_id = t}

\* select ... where table_id = t order by captured_at desc limit 1
LatestSnapshot(store, t) ==
    LET S == SnapshotsOf(store, t)
    IN IF S = {} THEN 0
       ELSE CHOOSE i \in S :
              \A j \in S : store.snapshots[j].captured_at
                              <= store.snapshots[i].captured_at

KeyOf(store, i) ==
    LET a == store.anomalies[store.incidents[i].anomaly_id]
    IN <<a.table_id, a.type>>

Keys == TableIds \X {"schema_drift", "freshness_violation"}

OpenIncidents(store, k) ==
    {i \in 1..Len(store.incidents) :
        KeyOf(store, i) = k /\ store.incidents[i].status \in OpenSet}

\* variants of _find_open_incident: status filter reduced to "open"; type
\* filter dropped
FindOpenIncident_OnlyOpen(store, table_id, anomaly_type) ==
    LET M == {i \in 1..Len(store.incidents) :
                 /\ KeyOf(store, i) = <<table_id, anomaly_type>>
                 /\ store.incidents[i].status = "open"}
    IN IF M = {} THEN 0 ELSE MaxOf(M)

FindOpenIncident_AnyType(store, table_id, anomaly_type) ==
    LET M == {i \in 1..Len(store.incidents) :
                 /\ KeyOf(store, i)[1] = table_id
                 /\ store.incidents[i].status \in OpenSet}
    IN IF M = {} THEN 0 ELSE MaxOf(M)

\* _find_open_incident: 0 when no row matches
FindOpenIncident(store, table_id, anomaly_type) ==
    LET M == OpenIncidents(store, <<table_id, anomaly_type>>)
    IN IF M = {} THEN 0 ELSE MaxOf(M)

\* --------------------------------------------------------------- records
NoPend ==
    [check |-> "none", table_id |-> 0, columns |-> <<>>, snapshot_hash |-> 0,
     captured_at |-> 0, has_last |-> FALSE, last_hash |-> 0,
     last_columns |-> <<>>, severity |-> "none", anomalous |-> FALSE]

NoCall ==
    [path |-> "none", anomaly_id |-> 0, incident_id |-> 0,
     prev_severity |-> "none", architect |-> "none",
     executor_called |-> FALSE]

NoCycle ==
    [id |-> 0, keys |-> {}, overlapped |-> {}, committed |-> FALSE,
     routed |-> 0, base |-> 0, merged |-> {},
     lost |-> [snapshots |-> {}, incidents |-> 0]]

\* a message {event, data}; visible: the incident row it names was in the
\* committed store, with the values the sender holds, when it was sent
Event(name, id, sev, status, visible) ==
    [event |-> name, incident_id |-> id, severity |-> sev, status |-> status,
     visible |-> visible]

NewIncident(anomaly_id, severity) ==
    [anomaly_id |-> anomaly_id, status |-> "investigating",
     severity |-> severity, diagnosis |-> Null, blast_radius |-> Null,
     remediation |-> Null, report |-> Null, resolved_at |-> Null,
     resolved_by |-> Null, dismiss_reason |-> Null]

DiagnosisJson(sev) == <<"diagnosis", sev>>
Truthy(x) == x # Null

\* anomalies stored or about to be stored, over all sessions
PlannedAnomalies ==
    Len(IF lock = NoSession THEN db.anomalies ELSE txn.anomalies)
    + Cardinality({s \in Sessions : pc[s] = "store" /\ pend[s].anomalous})

\* the position after the current check: the next check, or the commit
Advance(s) ==
    /\ pos' = [pos EXCEPT ![s] = @ + 1]
    /\ pc' = [pc EXCEPT ![s] = IF pos[s] + 1 > Len(Plan) THEN "commit"
                                 ELSE "inspect"]
    /\ tally' = [tally EXCEPT ![s].tables =
                   @ + TablesVisitedAt(pos[s] + 1) - TablesVisitedAt(pos[s])]

\* the messages thread x broadcasts in this step
Sends(x, msgs) == sent' = [sent EXCEPT ![x] = msgs]

\* ------------------------------------------------------------------ Init
\* no loop of the driver under way, no helper called
DriverOff ==
    [at |-> "off", monotonic |-> 0, last_lineage_refresh |-> 0,
     iteration |-> 0, refreshed |-> "none", cycle_failed |-> FALSE,
     cancelled |-> FALSE, interrupted |-> "none"]
NoFn == [op |-> "none"]
\* the store, the sessions and the notifier after start-up
InitPipeline ==
    /\ db = EmptyStore
    /\ txn = EmptyStore
    /\ lock = NoSession
    /\ pc = [s \in Sessions |-> "idle"]
    /\ pos = [s \in Sessions |-> 0]
    /\ pend = [s \in Sessions |-> NoPend]
    /\ cur = [s \in Sessions |-> 0]
    /\ clock = 0
    /\ sent = [x \in Threads |-> <<>>]
    /\ lastCall = [s \in Sessions |-> NoCall]
    /\ cyc = [s \in Sessions |-> NoCycle]
    /\ cycles = 0
    /\ ops = 0
    /\ connector = [s \in Sessions |-> "none"]
    /\ tally = [s \in Sessions |-> NoTally]
    /\ notifier = [connections |-> <<>>, accepted |-> {}, at |-> "idle",
                   index |-> 0, start |-> {}, log |-> <<>>,
                   disconnected |-> <<>>, broadcasts |-> 0]
    /\ lineage = [edges |-> <<>>, now |-> 0, refreshes |-> 0, ticks |-> 0]
    /\ registry = [connections |-> <<>>, tables |-> <<>>, requests |-> 0,
                   response |-> [op |-> "none"]]

Init ==
    /\ InitPipeline
    /\ warehouse = Changing
    /\ driver = DriverOff
    /\ fn = NoFn

\* start-up in front of a warehouse that then stays as it is
InitSteady ==
    /\ InitPipeline
    /\ warehouse \in Warehouses
    /\ driver = DriverOff
    /\ fn = NoFn

\* --------------------------------------------------------- the scan cycle
\* _scan_loop / trigger_scan entering _run_scan_cycle: a fresh session
StartCycle(s) ==
    /\ pc[s] = "idle"
    /\ cycles < MaxCycles
    /\ cycles' = cycles + 1
    /\ pos' = [pos EXCEPT ![s] = 1]
    /\ pc' = [pc EXCEPT ![s] = IF Len(Plan) = 0 THEN "commit" ELSE "inspect"]
    /\ connector' = [connector EXCEPT ![s] = "open"]
    /\ tally' = [tally EXCEPT ![s] =
                   [tables |-> IF Len(Plan) = 0 THEN Cardinality(TableIds)
                               ELSE TablesVisitedAt(1),
                    anomalies |-> 0]]
    /\ cyc' = [o \in Sessions |->
                IF o = s
                THEN [id |-> cycles + 1, keys |-> {}, committed |-> FALSE,
                      routed |-> 0, base |-> Len(View(s).anomalies),
                      merged |-> {}, lost |-> cyc[s].lost,
                      overlapped |-> {cyc[x].id : x \in
                                        {y \in Sessions \ {s} : pc[y] # "idle"}}]
                ELSE IF pc[o] # "idle"
                     THEN [cyc[o] EXCEPT !.overlapped = @ \cup {cycles + 1}]
                     ELSE cyc[o]]
    /\ lastCall' = [lastCall EXCEPT ![s] = NoCall]
    /\ Sends(s, <<>>)
    /\ UNCHANGED <<db, txn, lock, pend, cur, clock, ops, warehouse, driver, fn, notifier, lineage, registry>>

\* SchemaSentinel.inspect up to the construction of new_snapshot: fetch,
\* hash, read of the latest snapshot
SchemaFetch(s) ==
    /\ pc[s] = "inspect"
    /\ Plan[pos[s]].check = "schema"
    /\ lastCall' = [lastCall EXCEPT ![s] = NoCall]
    /\ Sends(s, <<>>)
    /\ UNCHANGED <<connector, warehouse, driver, fn, notifier, lineage, registry>>
    /\ \E fetched \in FetchSchema(Plan[pos[s]].table),
          raised \in FetchSchemaRaises :
         IF raised
         THEN \* fetch_schema raised: return None, nothing written
              /\ Advance(s)
              /\ UNCHANGED <<db, txn, lock, pend, cur, clock, cyc, cycles, ops>>
         ELSE LET t == Plan[pos[s]].table
                  last == LatestSnapshot(View(s), t)
                  h == Sha256(ColumnsJson(fetched))
                  drift == last # 0 /\ View(s).snapshots[last].snapshot_hash # h
              IN /\ drift => PlannedAnomalies < MaxAnomalies
                 /\ pend' = [pend EXCEPT ![s] =
                      [check |-> "schema", table_id |-> t,
                       columns |-> ColumnsJson(fetched), snapshot_hash |-> h,
                       captured_at |-> clock + 1,
                       has_last |-> last # 0,
                       last_hash |-> IF last = 0 THEN 0
                                     ELSE View(s).snapshots[last].snapshot_hash,
                       last_columns |-> IF last = 0 THEN <<>>
                                        ELSE View(s).snapshots[last].columns,
                       severity |-> "none", anomalous |-> drift]]
                 /\ clock' = clock + 1
                 /\ pc' = [pc EXCEPT ![s] = "store"]
                 /\ UNCHANGED <<db, txn, lock, pos, cur, cyc, cycles, ops,
                                tally>>

\* FreshnessSentinel.inspect up to the construction of the anomaly;
\* minutes_since = -1 stands for a connector error or a missing timestamp
FreshnessFetch(s) ==
    /\ pc[s] = "inspect"
    /\ Plan[pos[s]].check = "freshness"
    /\ lastCall' = [lastCall EXCEPT ![s] = NoCall]
    /\ Sends(s, <<>>)
    /\ UNCHANGED <<connector, warehouse, driver, fn, notifier, lineage, registry>>
    /\ \E minutes_since \in FetchMinutesSince(Plan[pos[s]].table) :
         LET t == Plan[pos[s]].table
             found == FreshnessInspect(FreshnessSla(t), minutes_since)
         IN IF found = <<>>
            THEN /\ Advance(s)
                 /\ UNCHANGED <<db, txn, lock, pend, cur, clock, cyc, cycles,
                                ops>>
            ELSE /\ PlannedAnomalies < MaxAnomalies
                 /\ pend' = [pend EXCEPT ![s] =
                      [NoPend EXCEPT !.check = "freshness", !.table_id = t,
                         !.severity = found[1].severity,
                         !.anomalous = TRUE]]
                 /\ pc' = [pc EXCEPT ![s] = "store"]
                 /\ UNCHANGED <<db, txn, lock, pos, cur, clock, cyc, cycles,
                                ops, tally>>

\* variant of the comparison: no baseline check
SchemaAnomaly_NoBaseline(p) ==
    IF p.last_hash = p.snapshot_hash THEN <<>>
    ELSE <<[table_id |-> p.table_id, type |-> "schema_drift",
            severity |-> ClassifySchemaSeverity(
                           DiffSchemas(p.last_columns, p.columns))]>>

\* the anomaly SchemaSentinel.inspect builds after its flush: none on the
\* first snapshot and on an unchanged hash
SchemaAnomaly(p) ==
    IF ~p.has_last THEN <<>>
    ELSE IF p.last_hash = p.snapshot_hash THEN <<>>
    ELSE <<[table_id |-> p.table_id, type |-> "schema_drift",
            severity |-> ClassifySchemaSeverity(
                           DiffSchemas(p.last_columns, p.columns))]>>

\* the sentinel's db.add / db.flush and what follows it: the snapshot row
\* and the comparison (schema), the anomaly row (both)
SentinelStore(s) ==
    /\ pc[s] = "store"
    /\ CanWrite(s)
    /\ LET base == View(s)
           p == pend[s]
           snaps == IF p.check = "schema"
                    THEN Append(base.snapshots,
                           [table_id |-> p.table_id, columns |-> p.columns,
                            snapshot_hash |-> p.snapshot_hash,
                            captured_at |-> p.captured_at])
                    ELSE base.snapshots
           anomaly ==
               IF p.check = "freshness"
               THEN <<[table_id |-> p.table_id, type |-> "freshness_violation",
                       severity |-> p.severity]>>
               ELSE SchemaAnomaly(p)
       IN /\ txn' = [base EXCEPT !.snapshots = snaps,
                                 !.anomalies = base.anomalies \o anomaly]
          /\ lock' = s
          /\ IF anomaly = <<>>
             THEN /\ Advance(s)
                  /\ cur' = [cur EXCEPT ![s] = 0]
             ELSE /\ pc' = [pc EXCEPT ![s] = "handle"]
                  /\ cur' = [cur EXCEPT ![s] = Len(base.anomalies) + 1]
                  /\ pos' = pos
                  /\ tally' = [tally EXCEPT ![s].anomalies = @ + 1]
    /\ pend' = [pend EXCEPT ![s] = NoPend]
    /\ UNCHANGED <<db, clock, sent, lastCall, cyc, cycles, ops, connector,
                   warehouse, driver, fn, notifier, lineage, registry>>

\* the flush waits for the write transaction of another session and gives
\* up ("database is locked"): the cycle raises with nothing written
LockTimeout(s) ==
    /\ pc[s] = "store"
    /\ ~CanWrite(s)
    /\ pc' = [pc EXCEPT ![s] = "idle"]
    /\ pos' = [pos EXCEPT ![s] = 0]
    /\ pend' = [pend EXCEPT ![s] = NoPend]
    /\ cur' = [cur EXCEPT ![s] = 0]
    /\ cyc' = [cyc EXCEPT ![s] = [NoCycle EXCEPT !.lost = cyc[s].lost]]
    /\ tally' = [tally EXCEPT ![s] = NoTally]
    /\ UNCHANGED <<db, txn, lock, clock, sent, lastCall, cycles, ops,
                   connector, warehouse, driver, fn, notifier, lineage, registry>>

\* variant of the session's close: what was flushed is kept
ClosedSession_Flushed(s) == View(s)

\* the committed store once with SyncSessionLocal() as db is left without
\* a commit: the session's close rolls its transaction back
ClosedSession(s) == db

\* an exception leaves _run_scan_cycle after its first flush and before
\* db.commit(): out of the table loop, which has no try of its own (a query
\* failing, the columns not serialisable, a flush of handle_anomaly
\* failing) or out of connector.dispose(). The session is closed, the
\* connector is left as it is. lost keeps the capture times of the
\* snapshots and the number of incidents the cycle had flushed
CycleRaises(s) ==
    /\ pc[s] \in {"inspect", "handle", "commit"}
    /\ lock = s
    /\ db' = ClosedSession(s)
    /\ txn' = db'
    /\ lock' = NoSession
    /\ pc' = [pc EXCEPT ![s] = "idle"]
    /\ pos' = [pos EXCEPT ![s] = 0]
    /\ pend' = [pend EXCEPT ![s] = NoPend]
    /\ cur' = [cur EXCEPT ![s] = 0]
    /\ cyc' = [cyc EXCEPT ![s] =
                 [NoCycle EXCEPT
                    !.lost =
                       [snapshots |->
                          cyc[s].lost.snapshots
                          \cup {txn.snapshots[i].captured_at :
                                  i \in (Len(db.snapshots) + 1)
                                          ..Len(txn.snapshots)},
                        incidents |->
                          cyc[s].lost.incidents + Len(txn.incidents)
                            - Len(db.incidents)]]]
    /\ tally' = [tally EXCEPT ![s] = NoTally]
    /\ lastCall' = [lastCall EXCEPT ![s] = NoCall]
    /\ UNCHANGED <<clock, sent, cycles, ops, connector, warehouse, driver, fn,
                   notifier, lineage, registry>>

\* ------------------------------------------------- the sentinels' helpers
DiffColumns ==
    {ColId, ColPrice, ColQty,
     [name |-> "price", type |-> "INTEGER", nullable |-> TRUE]}
DiffLists ==
    {<<>>} \cup {<<c>> : c \in DiffColumns}
    \cup {<<p[1], p[2]>> : p \in {q \in DiffColumns \X DiffColumns :
                                      q[1].name # q[2].name}}

\* _diff_schemas followed by _classify_severity, as inspect calls them
ClassifyDrift ==
    /\ fn.op = "classify"
    /\ ~fn.done
    /\ fn' = [fn EXCEPT !.done = TRUE,
                        !.changes = DiffSchemas(fn.old, fn.new),
                        !.severity = ClassifySchemaSeverity(
                                        DiffSchemas(fn.old, fn.new))]
    /\ UNCHANGED <<db, txn, lock, pc, pos, pend, cur, clock, sent, lastCall,
                   cyc, cycles, ops, connector, tally, warehouse, driver, notifier, lineage, registry>>

\* FreshnessSentinel.inspect on a table of the given SLA and age
CheckFreshness ==
    /\ fn.op = "freshness"
    /\ ~fn.done
    /\ fn' = [fn EXCEPT !.done = TRUE,
                        !.found = FreshnessInspect(fn.sla, fn.minutes_since)]
    /\ UNCHANGED <<db, txn, lock, pc, pos, pend, cur, clock, sent, lastCall,
                   cyc, cycles, ops, connector, tally, warehouse, driver, notifier, lineage, registry>>

\* ------------------------------------------------------- the lineage graph
\* tables of the lineage graph, numbered in the order the store returns them
LineageNodes == {1, 2, 3, 4}

\* the rows lineage_edges may hold: a chain, a shortcut, a cycle, a self-loop
EdgeCandidates == {<<1, 2>>, <<2, 3>>, <<3, 4>>, <<1, 3>>, <<3, 1>>, <<1, 1>>}

\* lineage_edges: each candidate absent, seen within STALE_DAYS, or stale
LineageStores ==
    {{[source |-> e[1], target |-> e[2], stale |-> (f[e] = "stale")] :
         e \in {c \in EdgeCandidates : f[c] # "absent"}} :
       f \in [EdgeCandidates -> {"absent", "fresh", "stale"}]}

\* variant of the edge query: the last_seen_at filter dropped
Neighbors_WithStale(edges, current, direction) ==
    IF direction = "downstream"
    THEN {e.target : e \in {x \in edges : x.source = current}}
    ELSE {e.source : e \in {x \in edges : x.target = current}}

\* the neighbours the edge query of _bfs yields for the current node
Neighbors(edges, current, direction) ==
    IF direction = "downstream"
    THEN {e.target : e \in {x \in edges : x.source = current /\ ~x.stale}}
    ELSE {e.source : e \in {x \in edges : x.target = current /\ ~x.stale}}

\* the rows in the order the store returns them: ascending or descending
RECURSIVE Ordered(_, _)
Ordered(S, asc) ==
    IF S = {} THEN <<>>
    ELSE LET x == IF asc THEN CHOOSE m \in S : \A y \in S : m <= y
                  ELSE CHOOSE m \in S : \A y \in S : y <= m
         IN <<x>> \o Ordered(S \ {x}, asc)

\* the for loop of _bfs over the edges of the current node
RECURSIVE VisitEdges(_, _, _)
VisitEdges(nbrs, current_depth, st) ==
    IF nbrs = <<>> THEN st
    ELSE IF Head(nbrs) \in st.visited
         THEN VisitEdges(Tail(nbrs), current_depth, st)
         ELSE VisitEdges(Tail(nbrs), current_depth,
                [queue |-> Append(st.queue, <<Head(nbrs), current_depth + 1>>),
                 visited |-> st.visited \cup {Head(nbrs)},
                 results |-> Append(st.results,
                                    [table |-> Head(nbrs),
                                     depth |-> current_depth + 1])])

\* the while loop of _bfs
RECURSIVE BfsLoop(_, _, _, _, _)
BfsLoop(st, edges, depth, direction, asc) ==
    IF st.queue = <<>> THEN st.results
    ELSE LET current == Head(st.queue)[1]
             current_depth == Head(st.queue)[2]
             rest == [st EXCEPT !.queue = Tail(@)]
         IN IF current_depth >= depth
            THEN BfsLoop(rest, edges, depth, direction, asc)
            ELSE BfsLoop(
                   VisitEdges(Ordered(Neighbors(edges, current, direction), asc),
                              current_depth, rest),
                   edges, depth, direction, asc)

\* variant of _bfs: the start not marked as visited
Bfs_StartUnvisited(edges, start, depth, direction, asc) ==
    BfsLoop([queue |-> <<<<start, 0>>>>, visited |-> {}, results |-> <<>>],
            edges, depth, direction, asc)

\* LineageGraph._bfs
Bfs(edges, start, depth, direction, asc) ==
    BfsLoop([queue |-> <<<<start, 0>>>>, visited |-> {start}, results |-> <<>>],
            edges, depth, direction, asc)

\* get_upstream / get_downstream on a drawn graph
Traverse ==
    /\ fn.op = "bfs"
    /\ ~fn.done
    /\ fn' = [fn EXCEPT !.done = TRUE,
                        !.results = Bfs(fn.edges, fn.start, fn.depth,
                                        fn.direction, fn.asc)]
    /\ UNCHANGED <<db, txn, lock, pc, pos, pend, cur, clock, sent, lastCall,
                   cyc, cycles, ops, connector, tally, warehouse, driver, notifier, lineage, registry>>

\* the for loop of get_path over the neighbours of the current node: the
\* path is returned at the first neighbour that is the target, the
\* neighbours before it are queued unless visited
RECURSIVE PathVisit(_, _, _, _)
PathVisit(nbrs, path, target, st) ==
    IF nbrs = <<>> THEN st
    ELSE IF Head(nbrs) = target
         THEN [st EXCEPT !.found = Append(path, target)]
         ELSE IF Head(nbrs) \in st.visited
              THEN PathVisit(Tail(nbrs), path, target, st)
              ELSE PathVisit(Tail(nbrs), path, target,
                     [st EXCEPT
                        !.queue = Append(@, <<Head(nbrs),
                                              Append(path, Head(nbrs))>>),
                        !.visited = @ \cup {Head(nbrs)}])

\* the while loop of get_path; <<>> stands for None
RECURSIVE PathLoop(_, _, _, _)
PathLoop(st, edges, target, asc) ==
    IF st.found # <<>> THEN st.found
    ELSE IF st.queue = <<>> THEN <<>>
    ELSE LET current == Head(st.queue)[1]
             path == Head(st.queue)[2]
             rest == [st EXCEPT !.queue = Tail(@)]
         IN PathLoop(
              PathVisit(Ordered(Neighbors(edges, current, "downstream"), asc),
                        path, target, rest),
              edges, target, asc)

\* variant of get_path: a table is its own path
GetPath_TrivialSelf(edges, source, target, asc) ==
    PathLoop([queue |-> <<<<source, <<source>>>>>>, visited |-> {source},
              found |-> IF source = target THEN <<source>> ELSE <<>>],
             edges, target, asc)

\* LineageGraph.get_path
GetPath(edges, source, target, asc) ==
    PathLoop([queue |-> <<<<source, <<source>>>>>>, visited |-> {source},
              found |-> <<>>],
             edges, target, asc)

\* get_path on a drawn graph
FindPath ==
    /\ fn.op = "path"
    /\ ~fn.done
    /\ fn' = [fn EXCEPT !.done = TRUE,
                        !.path = GetPath(fn.edges, fn.source, fn.target, fn.asc)]
    /\ UNCHANGED <<db, txn, lock, pc, pos, pend, cur, clock, sent, lastCall,
                   cyc, cycles, ops, connector, tally, warehouse, driver, notifier, lineage, registry>>

\* ------------------------------------------------------ the lineage store
\* days after which an edge not seen again is stale
STALE_DAYS == 30

\* the query logs extractor.extract may give, in the order of the log. An
\* entry is a write statement with the edge extract_lineage_edges finds in
\* it (confidences in hundredths: a direct source, a source in a
\* subquery), an entry without sql, a statement sqlglot.parse rejects with
\* ParseError, or a text its tokenizer rejects (an unterminated string:
\* sqlglot's TokenError, which is not a ParseError)
QueryLogs ==
    LET ParsedEdges ==
            {[source |-> 1, target |-> 2, confidence |-> c] :
                c \in {80, 100}}
            \cup {[source |-> 2, target |-> 3, confidence |-> 100]}
        Entries ==
            {[sql |-> "write", edges |-> <<pe>>] : pe \in ParsedEdges}
            \cup {[sql |-> k, edges |-> <<>>] :
                    k \in {"", "unparsable", "untokenizable"}}
    IN {<<>>} \cup {<<a>> : a \in Entries}
              \cup {<<a, b>> : a \in Entries, b \in Entries}

\* select ... where source_table == source, target_table == target
EdgeRows(rows, source, target) ==
    {i \in 1..Len(rows) :
        rows[i].source = source /\ rows[i].target = target}

\* variant of _upsert_edge: the confidence of the latest parse taken
UpsertEdge_Overwrite(rows, pe, now) ==
    IF EdgeRows(rows, pe.source, pe.target) # {}
    THEN [rows EXCEPT ![MinOf(EdgeRows(rows, pe.source, pe.target))] =
            [@ EXCEPT !.last_seen_at = now, !.confidence = pe.confidence]]
    ELSE Append(rows, [source |-> pe.source, target |-> pe.target,
                       confidence |-> pe.confidence,
                       first_seen_at |-> now, last_seen_at |-> now])

\* LineageRefresher._upsert_edge; the session autoflushes, so the select
\* sees the rows added earlier in the same refresh
UpsertEdge(rows, pe, now) ==
    IF EdgeRows(rows, pe.source, pe.target) # {}
    THEN [rows EXCEPT ![MinOf(EdgeRows(rows, pe.source, pe.target))] =
            [@ EXCEPT !.last_seen_at = now,
                      !.confidence = IF @ >= pe.confidence THEN @
                                     ELSE pe.confidence]]
    ELSE Append(rows, [source |-> pe.source, target |-> pe.target,
                       confidence |-> pe.confidence,
                       first_seen_at |-> now, last_seen_at |-> now])

\* the inner loop of refresh over the parsed edges of one entry
RECURSIVE UpsertAll(_, _, _)
UpsertAll(rows, batch, now) ==
    IF batch = <<>> THEN rows
    ELSE UpsertAll(UpsertEdge(rows, Head(batch), now), Tail(batch), now)

\* the loop of refresh over the entries, now read once before it: an entry
\* without sql is passed over, the ParseError extract_lineage_edges catches
\* gives no edges, any other error of the parser leaves the loop and
\* refresh
RECURSIVE RefreshLoop(_, _, _)
RefreshLoop(st, log, now) ==
    IF log = <<>> THEN st
    ELSE LET entry == Head(log)
         IN IF entry.sql = "" \/ entry.sql = "unparsable"
            THEN RefreshLoop(st, Tail(log), now)
            ELSE IF entry.sql = "untokenizable"
            THEN [st EXCEPT !.raised = "TokenError"]
            ELSE RefreshLoop(
                   [st EXCEPT !.rows = UpsertAll(@, entry.edges, now),
                              !.upserts = @ \o entry.edges],
                   Tail(log), now)

\* _run_lineage_refresh with one active connection: LineageRefresher.refresh
\* in a session of its own. Without an extractor, or when extract raises,
\* refresh returns 0; when refresh raises, the session is closed with the
\* upserts of the entries before uncommitted. batch holds the upserts the
\* commit made durable, returned is -1 when nothing was returned
RefreshEdges ==
    /\ lineage.refreshes < MaxRefreshes
    /\ \E extractor \in {"none", "fails", "ok"}, log \in QueryLogs :
         LET start == [rows |-> lineage.edges, upserts |-> <<>>,
                       raised |-> "none"]
             out == IF extractor = "ok"
                    THEN RefreshLoop(start, log, lineage.now)
                    ELSE start
         IN /\ extractor # "ok" => log = <<>>
            /\ lineage' = [lineage EXCEPT
                             !.edges = IF out.raised = "none" THEN out.rows
                                       ELSE @,
                             !.refreshes = @ + 1]
            /\ fn' = [op |-> "refresh", extractor |-> extractor,
                      log |-> log,
                      batch |-> IF out.raised = "none" THEN out.upserts
                                ELSE <<>>,
                      upserts |-> out.upserts,
                      returned |-> IF out.raised = "none"
                                   THEN Len(out.upserts) ELSE -1,
                      raised |-> out.raised]
    /\ UNCHANGED <<db, txn, lock, pc, pos, pend, cur, clock, sent, lastCall,
                   cyc, cycles, ops, connector, tally, warehouse, driver,
                   notifier, registry>>

\* datetime.now(timezone.utc) moving on by a day or by STALE_DAYS
Tick ==
    /\ lineage.ticks < MaxTicks
    /\ \E days \in {1, STALE_DAYS} :
         lineage' = [lineage EXCEPT !.now = @ + days, !.ticks = @ + 1]
    /\ fn' = NoFn
    /\ UNCHANGED <<db, txn, lock, pc, pos, pend, cur, clock, sent, lastCall,
                   cyc, cycles, ops, connector, tally, warehouse, driver,
                   notifier, registry>>

\* variant of the filter: no edge is ever stale
IsStale_Never(row, now) == FALSE

\* not (last_seen_at >= cutoff), cutoff = now - timedelta(days=STALE_DAYS)
IsStale(row, now) == ~(row.last_seen_at >= now - STALE_DAYS)

\* the rows as the edge queries of the graph see them
FreshView(rows, now) ==
    {[source |-> rows[i].source, target |-> rows[i].target,
      stale |-> IsStale(rows[i], now)] : i \in 1..Len(rows)}

\* LineageGraph.get_full_graph
GetFullGraph(rows, now) ==
    LET fresh == SelectSeq(rows, LAMBDA r : ~IsStale(r, now))
    IN [nodes |-> Ordered({fresh[i].source : i \in 1..Len(fresh)}
                            \cup {fresh[i].target : i \in 1..Len(fresh)},
                          TRUE),
        edges |-> [i \in 1..Len(fresh) |->
                     [source |-> fresh[i].source, target |-> fresh[i].target,
                      confidence |-> fresh[i].confidence]]]

\* the graph queries of the API, depth at its default: get_upstream,
\* get_downstream, get_blast_radius, get_path, get_full_graph
RunQuery(rows, now, q) ==
    CASE q.kind = "upstream" ->
           Bfs(FreshView(rows, now), q.table, 3, "upstream", q.asc)
      [] q.kind = "downstream" ->
           Bfs(FreshView(rows, now), q.table, 3, "downstream", q.asc)
      [] q.kind = "blast_radius" ->
           LET downstream == Bfs(FreshView(rows, now), q.table, 10,
                                 "downstream", q.asc)
           IN [table |-> q.table, affected_tables |-> downstream,
               total_affected |-> Len(downstream),
               max_depth |-> IF downstream = <<>> THEN 0
                             ELSE MaxOf({downstream[i].depth :
                                           i \in 1..Len(downstream)})]
      [] q.kind = "path" ->
           GetPath(FreshView(rows, now), q.table, q.target, q.asc)
      [] q.kind = "full_graph" -> GetFullGraph(rows, now)

\* one graph query answered from the store as it is
QueryGraph ==
    /\ \E q \in [kind : {"upstream", "downstream", "blast_radius"},
                 table : 1..3, target : {0}, asc : BOOLEAN]
               \cup [kind : {"path"}, table : {1}, target : 2..3,
                     asc : BOOLEAN]
               \cup [kind : {"full_graph"}, table : {0}, target : {0},
                     asc : {TRUE}] :
         fn' = [op |-> "query", q |-> q,
                result |-> RunQuery(lineage.edges, lineage.now, q)]
    /\ UNCHANGED <<db, txn, lock, pc, pos, pend, cur, clock, sent, lastCall,
                   cyc, cycles, ops, connector, tally, warehouse, driver,
                   notifier, lineage, registry>>

\* ------------------------------------------------- the LLM and the architect
\* variant of backoff_delays: a fourth delay
BackoffDelays_Four == <<2, 4, 8, 16>>

\* backoff_delays of LLMClient.diagnose: one attempt per delay
BackoffDelays == <<2, 4, 8>>

\* the keys _parse_diagnosis reads with result[...]
RequiredKeys == {"root_cause", "root_cause_table"}

\* what one chat.completions.create call may give: a content that is a JSON
\* object (with all required keys or not), a content that is not JSON, a
\* content of None, an APIError (APITimeoutError is a subclass), a
\* RateLimitError with a retry_after of 30 or with none (0), or a response
\* with no choice in it (IndexError)
LlmReplies ==
    {[kind |-> "content", json |-> TRUE, keys |-> K, retry_after |-> 0] :
        K \in {RequiredKeys, {"root_cause"}}}
    \cup {[kind |-> k, json |-> FALSE, keys |-> {}, retry_after |-> 0] :
            k \in {"content", "empty", "api_error", "rate_limited",
                   "no_choice"}}
    \cup {[kind |-> "rate_limited", json |-> FALSE, keys |-> {},
            retry_after |-> 30]}

\* the loop of LLMClient.diagnose from attempt i on: self.client raises
\* ValueError without a key; an IndexError is not caught either; content
\* None goes to the next attempt at once; an APIError or a JSONDecodeError
\* sleeps the delay unless it was the last attempt. RateLimitError is a
\* subclass of APIError and the clause for APIError comes first, so a rate
\* limit is handled there and the clause reading retry_after is never
\* entered. sleeps holds the seconds slept after each attempt that did not
\* end the call.
\* LLMClient.diagnose is the loop from attempt 1 with nothing slept
RECURSIVE LlmAttempt(_, _, _, _)
LlmAttempt(configured, replies, i, sleeps) ==
    IF i > Len(BackoffDelays)
    THEN [raised |-> "none", returned |-> FALSE, keys |-> {},
          attempts |-> i - 1, sleeps |-> sleeps]
    ELSE IF ~configured
    THEN [raised |-> "ValueError", returned |-> FALSE, keys |-> {},
          attempts |-> i - 1, sleeps |-> sleeps]
    ELSE LET r == replies[i]
             delay == IF i < Len(BackoffDelays) THEN BackoffDelays[i] ELSE 0
         IN CASE r.kind = "no_choice" ->
                   [raised |-> "IndexError", returned |-> FALSE, keys |-> {},
                    attempts |-> i, sleeps |-> sleeps]
              [] r.kind = "empty" ->
                   LlmAttempt(configured, replies, i + 1, Append(sleeps, 0))
              [] r.kind = "content" /\ r.json ->
                   [raised |-> "none", returned |-> TRUE, keys |-> r.keys,
                    attempts |-> i, sleeps |-> sleeps]
              [] OTHER ->
                   LlmAttempt(configured, replies, i + 1,
                              Append(sleeps, delay))

\* llm_client.diagnose(prompt) against a drawn service
CallDiagnose ==
    /\ fn.op = "diagnose"
    /\ ~fn.done
    /\ fn' = [fn EXCEPT !.done = TRUE,
                        !.out = LlmAttempt(fn.configured, fn.replies, 1, <<>>)]
    /\ UNCHANGED <<db, txn, lock, pc, pos, pend, cur, clock, sent, lastCall,
                   cyc, cycles, ops, connector, tally, warehouse, driver, notifier, lineage, registry>>

\* Architect._rule_based_fallback
RuleBasedFallback(severity, table_found) ==
    [origin |-> "rules",
     root_cause_table |-> IF table_found THEN "fqn" ELSE "unknown",
     severity |-> severity, confidence |-> 0,
     recommendations |-> <<"investigate">>]

\* Architect.analyze: the call of llm_client.diagnose stands outside the
\* try, _parse_diagnosis inside it (it reads the required keys with
\* result[...], severity and confidence with their defaults); confidences
\* in hundredths
Analyze(configured, replies, severity, table_found) ==
    LET result == LlmAttempt(configured, replies, 1, <<>>)
    IN IF result.raised # "none"
       THEN [raised |-> result.raised, diagnosis |-> [origin |-> "none"]]
       ELSE IF result.returned /\ RequiredKeys \subseteq result.keys
       THEN [raised |-> "none",
             diagnosis |-> [origin |-> "llm", root_cause_table |-> "from_llm",
                            severity |-> "medium", confidence |-> 50,
                            recommendations |-> <<>>]]
       ELSE [raised |-> "none",
             diagnosis |-> RuleBasedFallback(severity, table_found)]

\* architect.analyze(anomaly, db) on a drawn anomaly and service
CallAnalyze ==
    /\ fn.op = "analyze"
    /\ ~fn.done
    /\ fn' = [fn EXCEPT !.done = TRUE,
                        !.out = Analyze(fn.configured, fn.replies,
                                        fn.severity, fn.table_found)]
    /\ UNCHANGED <<db, txn, lock, pc, pos, pend, cur, clock, sent, lastCall,
                   cyc, cycles, ops, connector, tally, warehouse, driver, notifier, lineage, registry>>

\* ------------------------------------------------------------ the notifier
\* the websockets that may connect to /ws, each once
WebSockets == {"a", "b", "c"}

\* websocket_endpoint up to its loop: Notifier.connect
Connect(ws) ==
    /\ ws \notin notifier.accepted
    /\ notifier' = [notifier EXCEPT !.connections = Append(@, ws),
                                    !.accepted = @ \cup {ws}]
    /\ UNCHANGED <<db, txn, lock, pc, pos, pend, cur, clock, sent, lastCall,
                   cyc, cycles, ops, connector, tally, warehouse, driver, fn,
                   lineage, registry>>

\* websocket_endpoint on WebSocketDisconnect: Notifier.disconnect. It runs
\* whenever the event loop has the turn, between two sends of a broadcast
\* included; list.remove moves the later entries down, the index of a list
\* iterator under way stays
Disconnect(ws) ==
    /\ \E p \in 1..Len(notifier.connections) : notifier.connections[p] = ws
    /\ notifier' = [notifier EXCEPT
                      !.connections = SelectSeq(@, LAMBDA y : y # ws)]
    /\ UNCHANGED <<db, txn, lock, pc, pos, pend, cur, clock, sent, lastCall,
                   cyc, cycles, ops, connector, tally, warehouse, driver, fn,
                   lineage, registry>>

\* broadcast_async entered: for ws in self._connections starts an iterator
\* over the list itself
BroadcastBegin ==
    /\ notifier.at = "idle"
    /\ notifier.broadcasts < MaxBroadcasts
    /\ notifier' = [notifier EXCEPT !.at = "sending", !.index = 0,
                                    !.start =
                                        {notifier.connections[i] :
                                           i \in 1..Len(notifier.connections)},
                                    !.log = <<>>, !.disconnected = <<>>,
                                    !.broadcasts = @ + 1]
    /\ UNCHANGED <<db, txn, lock, pc, pos, pend, cur, clock, sent, lastCall,
                   cyc, cycles, ops, connector, tally, warehouse, driver, fn,
                   lineage, registry>>

\* one turn of the loop: the iterator yields the entry at its index, then
\* await ws.send_text(message) delivers or raises
BroadcastSend ==
    /\ notifier.at = "sending"
    /\ notifier.index < Len(notifier.connections)
    /\ \E delivered \in BOOLEAN :
         LET ws == notifier.connections[notifier.index + 1]
         IN notifier' = [notifier EXCEPT
                           !.index = @ + 1,
                           !.log = Append(@, [ws |-> ws,
                                              delivered |-> delivered]),
                           !.disconnected = IF delivered THEN @
                                            ELSE Append(@, ws)]
    /\ UNCHANGED <<db, txn, lock, pc, pos, pend, cur, clock, sent, lastCall,
                   cyc, cycles, ops, connector, tally, warehouse, driver, fn,
                   lineage, registry>>

\* the iterator is exhausted: the subscribers whose send raised are
\* disconnected, broadcast_async returns
BroadcastEnd ==
    /\ notifier.at = "sending"
    /\ notifier.index >= Len(notifier.connections)
    /\ notifier' = [notifier EXCEPT
                      !.at = "idle",
                      !.connections =
                          SelectSeq(@, LAMBDA y :
                                    \A i \in 1..Len(notifier.disconnected) :
                                        notifier.disconnected[i] # y)]
    /\ UNCHANGED <<db, txn, lock, pc, pos, pend, cur, clock, sent, lastCall,
                   cyc, cycles, ops, connector, tally, warehouse, driver, fn,
                   lineage, registry>>

\* Notifier.broadcast as the scan cycle calls it (handle_anomaly,
\* _merge_anomaly, the end of _run_scan_cycle). Both callers of the cycle
\* run it through asyncio.to_thread, so thread is "worker";
\* asyncio.get_running_loop() raises RuntimeError off the thread of the
\* event loop and the except clause passes: no task is created. On the
\* loop's thread one send_text task per entry of the list is created, the
\* loop over the list not being interrupted
Broadcast(event, thread) ==
    /\ notifier.broadcasts < MaxBroadcasts
    /\ notifier' = [notifier EXCEPT !.broadcasts = @ + 1]
    /\ fn' = [op |-> "broadcast", event |-> event, thread |-> thread,
              subscribers |-> {notifier.connections[i] :
                                 i \in 1..Len(notifier.connections)},
              tasks |-> IF thread = "loop" THEN notifier.connections
                        ELSE <<>>]
    /\ UNCHANGED <<db, txn, lock, pc, pos, pend, cur, clock, sent, lastCall,
                   cyc, cycles, ops, connector, tally, warehouse, driver,
                   lineage, registry>>

\* -------------------------------------------------- connections and tables
\* names are sequences of characters, so that schema.table is a real
\* concatenation
ConnectionIds == {1, 2}
SchemaNames == {<<"p">>, <<"p", ".", "s">>}
TableNames == {<<"o">>, <<"s", ".", "o">>}

\* f"{schema_name}.{table_name}"
Fqn(schema_name, table_name) == schema_name \o <<".">> \o table_name

\* POST /connections: add, commit, refresh. The commit of a second row of
\* the same name (the unique constraint on connections.name) raises
\* IntegrityError; no handler catches it, the request ends as an internal
\* server error and the session is closed unwritten
CreateConnection(name) ==
    /\ registry.requests < MaxRequests
    /\ registry' =
         IF \E i \in 1..Len(registry.connections) :
                registry.connections[i].name = name
         THEN [registry EXCEPT
                 !.requests = @ + 1,
                 !.response = [op |-> "create_connection", name |-> name,
                               status |-> 500,
                               raised |-> "IntegrityError"]]
         ELSE [registry EXCEPT
                 !.requests = @ + 1,
                 !.connections =
                     Append(@, [id |-> Len(@) + 1, name |-> name]),
                 !.response = [op |-> "create_connection", name |-> name,
                               status |-> 201, raised |-> "none"]]
    /\ UNCHANGED <<db, txn, lock, pc, pos, pend, cur, clock, sent, lastCall,
                   cyc, cycles, ops, connector, tally, warehouse, driver, fn,
                   notifier, lineage>>

\* POST /tables: add, commit, refresh, with no handler either: the unique
\* constraint on (connection_id, schema_name, table_name) and the foreign
\* key monitored_tables.connection_id (PRAGMA foreign_keys=ON) both raise
\* IntegrityError
AddTable(connection_id, schema_name, table_name) ==
    /\ registry.requests < MaxRequests
    /\ registry' =
         IF \/ \E i \in 1..Len(registry.tables) :
                   /\ registry.tables[i].connection_id = connection_id
                   /\ registry.tables[i].schema_name = schema_name
                   /\ registry.tables[i].table_name = table_name
            \/ ~\E i \in 1..Len(registry.connections) :
                    registry.connections[i].id = connection_id
         THEN [registry EXCEPT
                 !.requests = @ + 1,
                 !.response = [op |-> "add_table",
                               connection_id |-> connection_id,
                               schema_name |-> schema_name,
                               table_name |-> table_name, status |-> 500,
                               raised |-> "IntegrityError"]]
         ELSE [registry EXCEPT
                 !.requests = @ + 1,
                 !.tables =
                     Append(@, [id |-> Len(@) + 1,
                                connection_id |-> connection_id,
                                schema_name |-> schema_name,
                                table_name |-> table_name,
                                fully_qualified_name |->
                                    Fqn(schema_name, table_name)]),
                 !.response = [op |-> "add_table",
                               connection_id |-> connection_id,
                               schema_name |-> schema_name,
                               table_name |-> table_name, status |-> 201,
                               raised |-> "none"]]
    /\ UNCHANGED <<db, txn, lock, pc, pos, pend, cur, clock, sent, lastCall,
                   cyc, cycles, ops, connector, tally, warehouse, driver, fn,
                   notifier, lineage>>

\* the order of Python strings on the characters in use
RECURSIVE StrLess(_, _)
StrLess(a, b) ==
    LET CharCode(c) == CASE c = "." -> 46
                         [] c = "o" -> 111
                         [] c = "p" -> 112
                         [] c = "s" -> 115
    IN IF b = <<>> THEN FALSE
       ELSE IF a = <<>> THEN TRUE
       ELSE IF Head(a) = Head(b) THEN StrLess(Tail(a), Tail(b))
       ELSE CharCode(Head(a)) < CharCode(Head(b))

\* sorted(...) of a set of strings
RECURSIVE SortedStrings(_)
SortedStrings(S) ==
    IF S = {} THEN <<>>
    ELSE LET least == CHOOSE x \in S : \A y \in S \ {x} : StrLess(x, y)
         IN <<least>> \o SortedStrings(S \ {least})

\* variant of the select: the tables of every connection
MonitoredFqns_AllConnections(reg, connection_id) ==
    {reg.tables[i].fully_qualified_name : i \in 1..Len(reg.tables)}

\* monitored_fqns: select ... where connection_id == connection_id
MonitoredFqns(reg, connection_id) ==
    {reg.tables[i].fully_qualified_name :
        i \in {j \in 1..Len(reg.tables) :
                 reg.tables[j].connection_id = connection_id}}

\* rediscover: warehouse_tables holds the fqn of every table listed in every
\* schema; the two loops over the sorted differences split each fqn with
\* fqn.split(".", 1)
Deltas(reg, connection_id, listing) ==
    LET warehouse_tables == {Fqn(t.schema, t.name) : t \in listing}
        monitored_fqns == MonitoredFqns(reg, connection_id)
        added == SortedStrings(warehouse_tables \ monitored_fqns)
        dropped == SortedStrings(monitored_fqns \ warehouse_tables)
        TableDelta(action, fqn) ==
            LET dots == {i \in 1..Len(fqn) : fqn[i] = "."}
            IN [action |-> action,
                schema_name |-> IF dots = {} THEN <<"default">>
                                ELSE SubSeq(fqn, 1, MinOf(dots) - 1),
                table_name |-> IF dots = {} THEN fqn
                               ELSE SubSeq(fqn, MinOf(dots) + 1, Len(fqn)),
                fully_qualified_name |-> fqn]
    IN [i \in 1..Len(added) |-> TableDelta("new", added[i])]
       \o [i \in 1..Len(dropped) |-> TableDelta("dropped", dropped[i])]

\* Investigator.rediscover(connector, db, connection_id) on what
\* list_schemas and list_tables may report
Rediscover(connection_id, listing) ==
    /\ registry' =
         [registry EXCEPT
            !.response = [op |-> "rediscover",
                          connection_id |-> connection_id,
                          listing |-> listing,
                          deltas |-> Deltas(registry, connection_id,
                                            listing)]]
    /\ UNCHANGED <<db, txn, lock, pc, pos, pend, cur, clock, sent, lastCall,
                   cyc, cycles, ops, connector, tally, warehouse, driver, fn,
                   notifier, lineage>>

\* --------------------------------------------------------- the scan driver
\* settings.lineage_refresh_seconds and settings.scan_interval_seconds, in
\* units of the scan interval
LineageInterval == 3
ScanInterval == 1

\* _scan_loop entered with last_lineage_refresh = 0.0, the monotonic clock
\* reading anything from 0 up
DriverStarts ==
    [at : {"cycle"}, monotonic : 0..MaxStart, last_lineage_refresh : {0},
     iteration : {1}, refreshed : {"none"}, cycle_failed : {FALSE},
     cancelled : {FALSE}, interrupted : {"none"}]

\* variant of the handlers of the loop: except BaseException
CaughtByLoop_BaseException(exc) == TRUE

\* variant of the handlers of the loop: no handler
CaughtByLoop_Nothing(exc) == FALSE

\* except Exception, round the cycle and round the lineage refresh:
\* asyncio.CancelledError derives from BaseException
CaughtByLoop(exc) == exc = "Exception"

\* await asyncio.to_thread(_run_scan_cycle): the cycle returns or raises,
\* the loop goes on either way; it took no time or one unit
DriverCycle ==
    /\ driver.at = "cycle"
    /\ \E took \in {0, 1}, raised \in BOOLEAN :
         driver' = [driver EXCEPT
                      !.at = IF raised /\ ~CaughtByLoop("Exception")
                             THEN "dead" ELSE "lineage",
                      !.cycle_failed = raised,
                      !.monotonic = @ + took]
    /\ UNCHANGED <<db, txn, lock, pc, pos, pend, cur, clock, sent, lastCall,
                   cyc, cycles, ops, connector, tally, warehouse, fn, notifier, lineage, registry>>

\* now - last_lineage_refresh >= lineage_interval, now = time.monotonic()
LineageDue(d) == d.monotonic - d.last_lineage_refresh >= LineageInterval

\* the lineage part of the iteration: refresh when due; last_lineage_refresh
\* moves only when _run_lineage_refresh returned
LineageRefresh ==
    /\ driver.at = "lineage"
    /\ IF LineageDue(driver)
       THEN \E raised \in BOOLEAN :
              driver' = [driver EXCEPT
                           !.at = IF raised /\ ~CaughtByLoop("Exception")
                                  THEN "dead" ELSE "sleep",
                           !.refreshed = IF raised THEN "failed" ELSE "ok",
                           !.last_lineage_refresh =
                               IF raised THEN @ ELSE driver.monotonic]
       ELSE driver' = [driver EXCEPT !.at = "sleep", !.refreshed = "skipped"]
    /\ UNCHANGED <<db, txn, lock, pc, pos, pend, cur, clock, sent, lastCall,
                   cyc, cycles, ops, connector, tally, warehouse, fn, notifier, lineage, registry>>

\* await asyncio.sleep(interval), then the next iteration
DriverSleep ==
    /\ driver.at = "sleep"
    /\ driver.iteration < MaxIterations
    /\ driver' = [driver EXCEPT !.at = "cycle",
                                !.monotonic = @ + ScanInterval,
                                !.iteration = @ + 1,
                                !.refreshed = "none",
                                !.cycle_failed = FALSE]
    /\ UNCHANGED <<db, txn, lock, pc, pos, pend, cur, clock, sent, lastCall,
                   cyc, cycles, ops, connector, tally, warehouse, fn, notifier, lineage, registry>>

\* lifespan on shutdown: scanner_task.cancel(). CancelledError is raised in
\* _scan_loop at the await it is suspended in: inside the try round the
\* cycle, inside the try round the lineage refresh, or at the sleep; the
\* thread started by to_thread is not touched
CancelDriver ==
    /\ driver.at \in {"cycle", "lineage", "sleep"}
    /\ ~driver.cancelled
    /\ driver' = [driver EXCEPT
                    !.cancelled = TRUE,
                    !.interrupted = pc["bg"],
                    !.at = IF driver.at # "sleep" /\ CaughtByLoop("CancelledError")
                           THEN IF driver.at = "cycle" THEN "lineage"
                                ELSE "sleep"
                           ELSE "cancelled"]
    /\ UNCHANGED <<db, txn, lock, pc, pos, pend, cur, clock, sent, lastCall,
                   cyc, cycles, ops, connector, tally, warehouse, fn,
                   notifier, lineage, registry>>

\* _scan_loop at the top of an iteration: to_thread starts _run_scan_cycle
LaunchCycle ==
    /\ driver.at = "cycle"
    /\ cycles < driver.iteration
    /\ StartCycle("bg")

\* await asyncio.to_thread(_run_scan_cycle) resumed: the thread has
\* returned after its commit, or raised
CycleReturns ==
    /\ driver.at = "cycle"
    /\ cycles = driver.iteration
    /\ pc["bg"] = "idle"
    /\ \E took \in {0, 1} :
         driver' = [driver EXCEPT
                      !.at = IF ~cyc["bg"].committed /\ ~CaughtByLoop("Exception")
                             THEN "dead" ELSE "lineage",
                      !.cycle_failed = ~cyc["bg"].committed,
                      !.monotonic = @ + took]
    /\ UNCHANGED <<db, txn, lock, pc, pos, pend, cur, clock, sent, lastCall,
                   cyc, cycles, ops, connector, tally, warehouse, fn,
                   notifier, lineage, registry>>

\* ----------------------------------------------------------- orchestrator
\* architect.analyze: raises, returns nothing, or a Diagnosis of a severity
ArchitectOutcomes == {"raise", "empty"} \cup Severities
CallOutcomes == {"ok", "raise"}
\* the outcomes drawn where the enrichment is not the subject
FewArchitectOutcomes == {"empty", "high"}
FewCallOutcomes == {"ok"}

\* the row, exactly as the session holds it, is in the committed store
Visible(store, id) ==
    /\ id <= Len(db.incidents)
    /\ db.incidents[id] = store.incidents[id]
    /\ db.anomalies[db.incidents[id].anomaly_id]
         = store.anomalies[store.incidents[id].anomaly_id]

\* variant of _merge_anomaly: the incident sent back to investigation
MergeAnomaly_Reinvestigate(incident, anomaly) ==
    IF Rank(anomaly.severity) > Rank(incident.severity)
    THEN [incident EXCEPT !.severity = anomaly.severity,
                          !.status = "investigating", !.diagnosis = Null]
    ELSE incident

\* variant of _merge_anomaly: the anomaly's severity always taken
MergeAnomaly_Overwrite(incident, anomaly) ==
    [incident EXCEPT !.severity = anomaly.severity]

\* _merge_anomaly: the incident after the merge
MergeAnomaly(incident, anomaly) ==
    IF Rank(anomaly.severity) > Rank(incident.severity)
    THEN [incident EXCEPT !.severity = anomaly.severity]
    ELSE incident

\* variant of step 3: the diagnosis's severity taken only when it ranks
\* higher
Diagnose_KeepHigher(incident, architect) ==
    IF architect \in Severities
    THEN [incident EXCEPT !.diagnosis = DiagnosisJson(architect),
                          !.blast_radius = <<"blast_radius">>,
                          !.severity = IF Rank(architect) > Rank(@)
                                       THEN architect ELSE @]
    ELSE incident

\* step 3 of handle_anomaly: the architect's diagnosis, when there is one
Diagnose(incident, architect) ==
    IF architect \in Severities
    THEN [incident EXCEPT !.diagnosis = DiagnosisJson(architect),
                          !.blast_radius = <<"blast_radius">>,
                          !.severity = architect]
    ELSE incident

\* variant of step 4: the guard on the diagnosis dropped
ExecutorCalled_Always(incident) == TRUE

\* step 4: the executor is invoked only on a diagnosis
ExecutorCalled(incident) == Truthy(incident.diagnosis)
Remediate(incident, executor) ==
    IF ExecutorCalled(incident) /\ executor = "ok"
    THEN [incident EXCEPT !.remediation = <<"remediation">>]
    ELSE incident

\* variant of step 5: the status set only once a diagnosis is there
SetPendingReview_OnDiagnosis(incident) ==
    IF Truthy(incident.diagnosis)
    THEN [incident EXCEPT !.status = "pending_review"]
    ELSE incident

\* step 5
SetPendingReview(incident) == [incident EXCEPT !.status = "pending_review"]

\* step 6: ReportGenerator.generate reads the severity of the incident as
\* it is by then
Report(incident, report) ==
    IF report = "ok"
    THEN [incident EXCEPT !.report = <<"report", incident.severity>>]
    ELSE incident

\* steps 2 to 6 of handle_anomaly: the incident after the create path
CreateIncident(anomaly_id, anomaly, architect, executor, report) ==
    Report(SetPendingReview(Remediate(
        Diagnose(NewIncident(anomaly_id, anomaly.severity), architect),
        executor)), report)

\* variant of the merge notification: sent as incident.created
MergeEvent_AsCreated(store, id) ==
    Event("incident.created", id, store.incidents[id].severity, "absent",
          Visible(store, id))

\* the notification of the merge path and of the create path
MergeEvent(store, id) ==
    Event("incident.updated", id, store.incidents[id].severity, "absent",
          Visible(store, id))
CreateEvent(store, id) ==
    Event("incident.created", id, store.incidents[id].severity, "absent",
          Visible(store, id))

\* Orchestrator.handle_anomaly, called by the cycle on the sentinel's anomaly
HandleAnomaly(s, AO, EO, RO) ==
    /\ pc[s] = "handle"
    /\ lock = s
    /\ LET anomaly == txn.anomalies[cur[s]]
           existing == FindOpenIncident(txn, anomaly.table_id, anomaly.type)
       IN IF existing # 0
          THEN LET merged == MergeAnomaly(txn.incidents[existing], anomaly)
                   after == [txn EXCEPT !.incidents[existing] = merged]
               IN /\ txn' = after
                  /\ Sends(s, <<MergeEvent(after, existing)>>)
                  /\ lastCall' = [lastCall EXCEPT ![s] =
                        [path |-> "merge", anomaly_id |-> cur[s],
                         incident_id |-> existing,
                         prev_severity |-> txn.incidents[existing].severity,
                         architect |-> "none", executor_called |-> FALSE]]
          ELSE \E architect \in AO, executor \in EO, report \in RO :
               LET created == CreateIncident(cur[s], anomaly, architect,
                                             executor, report)
                   id == Len(txn.incidents) + 1
                   after == [txn EXCEPT !.incidents = Append(@, created)]
               IN /\ txn' = after
                  /\ Sends(s, <<CreateEvent(after, id)>>)
                  /\ lastCall' = [lastCall EXCEPT ![s] =
                        [path |-> "create", anomaly_id |-> cur[s],
                         incident_id |-> id,
                         prev_severity |-> "none",
                         architect |-> architect,
                         executor_called |->
                             ExecutorCalled(Diagnose(
                                 NewIncident(cur[s], anomaly.severity),
                                 architect))]]
    /\ cyc' = [cyc EXCEPT ![s].keys =
                 @ \cup {<<txn.anomalies[cur[s]].table_id,
                           txn.anomalies[cur[s]].type>>},
                          ![s].routed = @ + 1,
                          ![s].merged =
                              LET a == txn.anomalies[cur[s]]
                                  existing == FindOpenIncident(txn, a.table_id,
                                                               a.type)
                              IN IF existing # 0 THEN @ \cup {existing}
                                 ELSE @]
    /\ cur' = [cur EXCEPT ![s] = 0]
    /\ Advance(s)
    /\ UNCHANGED <<db, lock, pend, clock, cycles, ops, connector, warehouse,
                   driver, fn, notifier, lineage, registry>>

\* db.commit() at the end of the cycle
Commit(s) ==
    /\ pc[s] = "commit"
    /\ db' = View(s)
    /\ lock' = IF lock = s THEN NoSession ELSE lock
    /\ pc' = [pc EXCEPT ![s] = "committed"]
    /\ cyc' = [cyc EXCEPT ![s].committed = TRUE]
    /\ lastCall' = [lastCall EXCEPT ![s] = NoCall]
    /\ Sends(s, <<>>)
    /\ connector' = [connector EXCEPT ![s] = "disposed"]
    /\ UNCHANGED <<txn, pos, pend, cur, clock, cycles, ops, tally, warehouse,
                   driver, fn, notifier, lineage, registry>>

\* variant of the payload: the planned tables and the stored anomalies
ScanCompletedEvent_Totals(t) ==
    [event |-> "scan.completed", incident_id |-> 0, severity |-> "absent",
     status |-> "absent", visible |-> TRUE,
     tables_scanned |-> Cardinality(TableIds),
     anomalies_found |-> Len(db.anomalies)]

\* the message of scan.completed for the tallies t of the cycle
ScanCompletedEvent(t) ==
    [event |-> "scan.completed", incident_id |-> 0, severity |-> "absent",
     status |-> "absent", visible |-> TRUE,
     tables_scanned |-> t.tables, anomalies_found |-> t.anomalies]

\* the scan.completed broadcast; the cycle returns
ScanCompleted(s) ==
    /\ pc[s] = "committed"
    /\ Sends(s, <<ScanCompletedEvent(tally[s])>>)
    /\ pc' = [pc EXCEPT ![s] = "idle"]
    /\ pos' = [pos EXCEPT ![s] = 0]
    /\ UNCHANGED <<db, txn, lock, pend, cur, clock, lastCall, cyc, cycles, ops,
                   connector, tally, warehouse, driver, fn, notifier, lineage, registry>>

\* ------------------------------------------------------ operator requests
\* variant of approve_incident: the status set alone
Approved_StatusOnly(incident) == [incident EXCEPT !.status = "resolved"]

Approved(incident) ==
    [incident EXCEPT !.status = "resolved", !.resolved_at = Now,
                     !.resolved_by = <<"api_user">>]

Dismissed(incident) ==
    [incident EXCEPT !.status = "dismissed", !.dismiss_reason = <<"reason">>,
                     !.resolved_at = Now]

\* POST /incidents/{id}/approve on its own session
ApproveIncident(id) ==
    /\ ops < MaxOps
    /\ lock = NoSession
    /\ id \in 1..Len(db.incidents)
    /\ db' = [db EXCEPT !.incidents[id] = Approved(@)]
    /\ txn' = db'
    /\ Sends("api", <<Event("incident.updated", id, "absent", "resolved", TRUE)>>)
    /\ ops' = ops + 1
    /\ UNCHANGED <<lock, pc, pos, pend, cur, clock, lastCall, cyc, cycles,
                   connector, tally, warehouse, driver, fn, notifier, lineage, registry>>

\* POST /incidents/{id}/dismiss on its own session
DismissIncident(id) ==
    /\ ops < MaxOps
    /\ lock = NoSession
    /\ id \in 1..Len(db.incidents)
    /\ db' = [db EXCEPT !.incidents[id] = Dismissed(@)]
    /\ txn' = db'
    /\ Sends("api", <<Event("incident.updated", id, "absent", "dismissed", TRUE)>>)
    /\ ops' = ops + 1
    /\ UNCHANGED <<lock, pc, pos, pend, cur, clock, lastCall, cyc, cycles,
                   connector, tally, warehouse, driver, fn, notifier, lineage, registry>>

\* --------------------------------------------------------- specifications
\* the background driver's cycles and the operator
Next ==
    \/ StartCycle("bg")
    \/ SchemaFetch("bg")
    \/ FreshnessFetch("bg")
    \/ SentinelStore("bg")
    \/ HandleAnomaly("bg", FewArchitectOutcomes, FewCallOutcomes, FewCallOutcomes)
    \/ Commit("bg")
    \/ ScanCompleted("bg")
    \/ \E id \in 1..MaxAnomalies : ApproveIncident(id)
    \/ \E id \in 1..MaxAnomalies : DismissIncident(id)

Spec == Init /\ [][Next]_vars

\* the background driver's cycles with every outcome of the enrichment
NextPipeline ==
    \/ StartCycle("bg")
    \/ SchemaFetch("bg")
    \/ FreshnessFetch("bg")
    \/ SentinelStore("bg")
    \/ HandleAnomaly("bg", ArchitectOutcomes, CallOutcomes, CallOutcomes)
    \/ Commit("bg")
    \/ ScanCompleted("bg")

SpecPipeline == Init /\ [][NextPipeline]_vars

\* the background driver's cycles and those of POST /scan/trigger
NextConcurrent ==
    \/ \E s \in Sessions : StartCycle(s)
    \/ \E s \in Sessions : SchemaFetch(s)
    \/ \E s \in Sessions : FreshnessFetch(s)
    \/ \E s \in Sessions : SentinelStore(s)
    \/ \E s \in Sessions : LockTimeout(s)
    \/ \E s \in Sessions :
         HandleAnomaly(s, FewArchitectOutcomes, FewCallOutcomes, FewCallOutcomes)
    \/ \E s \in Sessions : Commit(s)
    \/ \E s \in Sessions : ScanCompleted(s)

SpecConcurrent == Init /\ [][NextConcurrent]_vars

\* the background driver's cycles with an exception possible after the
\* first flush and before the commit
NextAbort ==
    \/ StartCycle("bg")
    \/ SchemaFetch("bg")
    \/ FreshnessFetch("bg")
    \/ SentinelStore("bg")
    \/ HandleAnomaly("bg", FewArchitectOutcomes, FewCallOutcomes, FewCallOutcomes)
    \/ Commit("bg")
    \/ ScanCompleted("bg")
    \/ CycleRaises("bg")

SpecAbort == Init /\ [][NextAbort]_vars

\* two cycles of the background driver in front of an unchanged warehouse
NextSteady ==
    \/ StartCycle("bg")
    \/ SchemaFetch("bg")
    \/ FreshnessFetch("bg")
    \/ SentinelStore("bg")
    \/ HandleAnomaly("bg", FewArchitectOutcomes, FewCallOutcomes, FewCallOutcomes)
    \/ Commit("bg")
    \/ ScanCompleted("bg")

SpecSteady == InitSteady /\ [][NextSteady]_vars

\* calls of the pure helpers on drawn arguments: column lists for
\* _diff_schemas; SLAs (0: unset) and ages (-1: no timestamp) for the
\* freshness check; graphs for the traversals and for get_path; for the LLM
\* the replies the service would give to one more attempt than the delays
InitFunctions ==
    /\ InitPipeline
    /\ warehouse = Changing
    /\ driver = DriverOff
    /\ fn \in
         [op : {"classify"}, old : DiffLists, new : DiffLists, done : {FALSE},
          changes : {{}}, severity : {"none"}]
         \cup [op : {"freshness"}, sla : 0..MaxSla,
               minutes_since : -1..(5 * MaxSla + 2), done : {FALSE},
               found : {<<>>}]
         \cup [op : {"bfs"}, edges : LineageStores, start : LineageNodes,
               depth : 0..MaxDepth, direction : {"upstream", "downstream"},
               asc : BOOLEAN, done : {FALSE}, results : {<<>>}]
         \cup [op : {"path"}, edges : LineageStores, source : LineageNodes,
               target : LineageNodes, asc : BOOLEAN, done : {FALSE},
               path : {<<>>}]
         \cup [op : {"diagnose"}, configured : BOOLEAN,
               replies : [1..(Len(BackoffDelays) + 1) -> LlmReplies],
               done : {FALSE}, out : {NoFn}]
         \cup [op : {"analyze"}, configured : BOOLEAN,
               replies : [1..(Len(BackoffDelays) + 1) ->
                            {r \in LlmReplies : r.json \/ r.kind = "api_error"}],
               severity : Severities, table_found : BOOLEAN,
               done : {FALSE}, out : {NoFn}]

NextFunctions ==
    \/ ClassifyDrift
    \/ CheckFreshness
    \/ Traverse
    \/ FindPath
    \/ CallDiagnose
    \/ CallAnalyze

SpecFunctions == InitFunctions /\ [][NextFunctions]_vars

\* the loop of the scan driver and its lineage cadence
InitDriver ==
    /\ InitPipeline
    /\ warehouse = Changing
    /\ driver \in DriverStarts
    /\ fn = NoFn

NextDriver ==
    \/ DriverCycle
    \/ LineageRefresh
    \/ DriverSleep
    \/ CancelDriver

SpecDriver == InitDriver /\ [][NextDriver]_vars

\* the loop under the scheduling of the event loop: a thread that has
\* returned, a sleep that has elapsed, resume the coroutine
SpecDriverLive ==
    /\ InitDriver
    /\ [][NextDriver]_vars
    /\ WF_vars(DriverCycle)
    /\ WF_vars(LineageRefresh)
    /\ WF_vars(DriverSleep)

\* the driver with the cycles it starts run step by step in their thread
NextShutdown ==
    \/ LaunchCycle
    \/ SchemaFetch("bg")
    \/ FreshnessFetch("bg")
    \/ SentinelStore("bg")
    \/ HandleAnomaly("bg", FewArchitectOutcomes, FewCallOutcomes, FewCallOutcomes)
    \/ Commit("bg")
    \/ ScanCompleted("bg")
    \/ CycleReturns
    \/ LineageRefresh
    \/ DriverSleep
    \/ CancelDriver

SpecShutdown == InitDriver /\ [][NextShutdown]_vars

NextRegistry ==
    \/ \E name \in {"wh", "lake"} : CreateConnection(name)
    \/ \E c \in ConnectionIds, sn \in SchemaNames, tn \in TableNames :
         AddTable(c, sn, tn)
    \/ \E c \in ConnectionIds,
          listing \in SUBSET [schema : SchemaNames, name : TableNames] :
         Rediscover(c, listing)

SpecRegistry == Init /\ [][NextRegistry]_vars

NextNotifier ==
    \/ \E ws \in WebSockets : Connect(ws)
    \/ \E ws \in WebSockets : Disconnect(ws)
    \/ BroadcastBegin
    \/ BroadcastSend
    \/ BroadcastEnd
    \/ \E event \in {"incident.created", "incident.updated",
                      "scan.completed"} : Broadcast(event, "worker")

SpecNotifier == Init /\ [][NextNotifier]_vars

NextLineage ==
    \/ RefreshEdges
    \/ Tick
    \/ QueryGraph

SpecLineage == Init /\ [][NextLineage]_vars

\* ===================================================================
\* Properties
\* ===================================================================
IncidentsOfKey(store, k) ==
    {i \in 1..Len(store.incidents) : KeyOf(store, i) = k}

\* C1: after any sequence of handle_anomaly calls interleaved with approve
\* and dismiss requests, each (table_id, type) has at most one incident
\* whose status is open, investigating or pending_review -- in the committed
\* store and in the scanning session's view.
C1_OneOpenPerKey ==
    \A k \in Keys :
        /\ Cardinality(OpenIncidents(db, k)) <= 1
        /\ Cardinality(OpenIncidents(txn, k)) <= 1

\* a key with an incident closed by the operator and a later open one
C1_Witness ==
    \E k \in Keys :
        \E i \in IncidentsOfKey(db, k), j \in OpenIncidents(db, k) :
            i < j /\ db.incidents[i].status \in Terminal

\* C2: when the cycle of the background driver and the cycle of POST
\* /scan/trigger overlap and both handle an anomaly of one (table_id, type),
\* then at the commit of the later one exactly one incident of that key is
\* in the open set.
C2_FirstWriterWins ==
    [][\A s \in Sessions : \A k \in Keys :
         ( /\ pc[s] = "commit" /\ pc'[s] = "committed"
           /\ k \in cyc[s].keys
           /\ \E o \in Sessions \ {s} :
                /\ cyc[o].committed
                /\ k \in cyc[o].keys
                /\ cyc[o].id \in cyc[s].overlapped )
         => Cardinality(OpenIncidents(db', k)) = 1]_vars

\* both overlapping cycles have committed an anomaly of one key, no incident
\* of the key existed before, and the key has one incident
C2_Witness ==
    \E s \in Sessions : \E k \in Keys :
        /\ pc[s] = "committed"
        /\ k \in cyc[s].keys
        /\ \E o \in Sessions \ {s} :
             /\ cyc[o].committed
             /\ k \in cyc[o].keys
             /\ cyc[o].id \in cyc[s].overlapped
        /\ Cardinality(IncidentsOfKey(db, k)) = 1
        /\ Cardinality({a \in 1..Len(db.anomalies) :
                          <<db.anomalies[a].table_id, db.anomalies[a].type>> = k}) = 2

\* C3: the incident row of a handle_anomaly call, with all its fields, is
\* committed and visible to other sessions before the call's
\* incident.created or incident.updated notification is emitted.
C3_CommittedBeforeNotified ==
    \A s \in Sessions : \A n \in 1..Len(sent[s]) :
        sent[s][n].event \in {"incident.created", "incident.updated"}
            => sent[s][n].visible

\* C4: resolved and dismissed are terminal: no operation changes the status
\* of an incident that is resolved or dismissed.
C4_TerminalIsFinal ==
    [][\A i \in 1..Len(db.incidents) :
          db.incidents[i].status \in Terminal
              => db'.incidents[i].status = db.incidents[i].status]_vars

\* C5: after a merge the incident's severity is the higher-ranked of its
\* previous severity and the anomaly's severity; a merge never lowers it.
C5_MergeKeepsHigherSeverity ==
    \A s \in Sessions :
        lastCall[s].path = "merge" =>
            LET now == txn.incidents[lastCall[s].incident_id].severity
                prev == lastCall[s].prev_severity
                new == txn.anomalies[lastCall[s].anomaly_id].severity
            IN /\ now \in {prev, new}
               /\ Rank(now) >= Rank(prev)
               /\ Rank(now) >= Rank(new)

\* a merge that raised the severity, and one that kept a higher severity
C5_Witness ==
    \E s \in Sessions :
        /\ lastCall[s].path = "merge"
        /\ Rank(txn.anomalies[lastCall[s].anomaly_id].severity)
             > Rank(lastCall[s].prev_severity)
        /\ txn.incidents[lastCall[s].incident_id].severity
             = txn.anomalies[lastCall[s].anomaly_id].severity

\* C6: handle_anomaly merges, returning an existing incident and inserting
\* none, exactly when an incident of the open set has a triggering anomaly
\* of the same table_id and type; otherwise it inserts a new incident and
\* returns it.
C6_MergeIffOpenMatch ==
    [][\A s \in Sessions :
         (pc[s] = "handle" /\ pc'[s] # "handle") =>
            LET a == txn.anomalies[cur[s]]
                open == OpenIncidents(txn, <<a.table_id, a.type>>)
                returned == lastCall'[s].incident_id
            IN IF open # {}
               THEN /\ Len(txn'.incidents) = Len(txn.incidents)
                    /\ returned \in open
               ELSE /\ Len(txn'.incidents) = Len(txn.incidents) + 1
                    /\ returned = Len(txn.incidents) + 1
                    /\ txn'.incidents[returned].anomaly_id = cur[s]]_vars

\* a new incident for a key whose earlier incident was resolved or dismissed
C6_Witness ==
    \E s \in Sessions :
        /\ lastCall[s].path = "create"
        /\ \E i \in 1..Len(txn.incidents) :
             /\ i < lastCall[s].incident_id
             /\ KeyOf(txn, i) = KeyOf(txn, lastCall[s].incident_id)
             /\ txn.incidents[i].status \in Terminal

\* C7: every handle_anomaly call emits exactly one event: incident.created
\* with {incident_id, severity} when it inserted an incident,
\* incident.updated with the incident's current severity when it merged.
C7_OneEventPerCall ==
    \A s \in Sessions :
        lastCall[s].path # "none" =>
            /\ Len(sent[s]) = 1
            /\ sent[s][1].event = (IF lastCall[s].path = "create"
                                   THEN "incident.created"
                                   ELSE "incident.updated")
            /\ sent[s][1].incident_id = lastCall[s].incident_id
            /\ sent[s][1].severity
                 = txn.incidents[lastCall[s].incident_id].severity

\* a second anomaly of a key merged into the one incident of the key
C7_Witness ==
    \E s \in Sessions :
        /\ lastCall[s].path = "merge"
        /\ Len(sent[s]) = 1
        /\ sent[s][1].event = "incident.updated"
        /\ Cardinality(IncidentsOfKey(txn,
               KeyOf(txn, lastCall[s].incident_id))) = 1

\* C8: every create-path call returns the newly inserted incident, with
\* anomaly_id the triggering anomaly's id and status pending_review,
\* whatever the architect, the executor and the report generator do.
C8_CreateReturnsPendingReview ==
    \A s \in Sessions :
        lastCall[s].path = "create" =>
            /\ lastCall[s].incident_id = Len(txn.incidents)
            /\ txn.incidents[lastCall[s].incident_id].anomaly_id
                 = lastCall[s].anomaly_id
            /\ txn.incidents[lastCall[s].incident_id].status = "pending_review"

\* a create-path call whose architect and report generator raised
C8_Witness ==
    \E s \in Sessions :
        /\ lastCall[s].path = "create"
        /\ lastCall[s].architect = "raise"
        /\ txn.incidents[lastCall[s].incident_id].report = Null
        /\ txn.incidents[lastCall[s].incident_id].status = "pending_review"

\* C9: on the create path, when the architect raises or returns nothing,
\* the incident keeps diagnosis = null, blast_radius = null and the
\* anomaly's severity, the executor is not invoked and remediation is null.
C9_ArchitectFailureLeavesNulls ==
    \A s \in Sessions :
        (lastCall[s].path = "create" /\ lastCall[s].architect \in {"raise", "empty"})
        => LET inc == txn.incidents[lastCall[s].incident_id]
           IN /\ inc.diagnosis = Null
              /\ inc.blast_radius = Null
              /\ inc.severity = txn.anomalies[lastCall[s].anomaly_id].severity
              /\ ~lastCall[s].executor_called
              /\ inc.remediation = Null

\* a create-path call whose architect returned nothing
C9_Witness ==
    \E s \in Sessions :
        /\ lastCall[s].path = "create"
        /\ lastCall[s].architect = "empty"
        /\ txn.incidents[lastCall[s].incident_id].diagnosis = Null

C11_NoRepeatedHash ==
    \A t \in TableIds :
        \A i, j \in SnapshotsOf(db, t) :
            ( /\ db.snapshots[i].captured_at < db.snapshots[j].captured_at
              /\ ~ \E k \in SnapshotsOf(db, t) :
                     /\ db.snapshots[i].captured_at < db.snapshots[k].captured_at
                     /\ db.snapshots[k].captured_at < db.snapshots[j].captured_at )
            => db.snapshots[i].snapshot_hash # db.snapshots[j].snapshot_hash

\* C12: in front of an unchanged warehouse the second scan cycle gets no
\* anomaly from any sentinel, schema or freshness, and so neither creates
\* nor updates an incident.
C12_SecondRunQuiet ==
    \A s \in Sessions :
        (warehouse # Changing /\ cyc[s].id >= 2) =>
            /\ tally[s].anomalies = 0
            /\ lastCall[s].path = "none"

\* C13: the severity of a schema_drift anomaly is the worst over its change
\* list: critical when the diff holds a column_deleted or a type_changed,
\* else medium when it holds the addition of a non-nullable column, else low.
C13_DriftSeverityIsWorstChange ==
    (fn.op = "classify" /\ fn.done) =>
        fn.severity =
            IF \E n \in ColNames(fn.old) :
                 \/ n \notin ColNames(fn.new)
                 \/ ColByName(fn.old, n).type # ColByName(fn.new, n).type
            THEN "critical"
            ELSE IF \E n \in ColNames(fn.new) \ ColNames(fn.old) :
                      ~ColByName(fn.new, n).nullable
                 THEN "medium"
                 ELSE "low"

\* a diff with a type change and no deletion, rated critical
C13_Witness ==
    /\ fn.op = "classify" /\ fn.done
    /\ \E c \in fn.changes : c.change = "type_changed"
    /\ \A c \in fn.changes : c.change # "column_deleted"
    /\ fn.severity = "critical"

\* C14: with SLA s and m minutes since last_update, the freshness check
\* gives no anomaly when m <= s, else a freshness_violation that is critical
\* when m > 5s, high when 2s < m <= 5s and medium when s < m <= 2s; it gives
\* none when the SLA is unset or no last_update is to be had.
C14_FreshnessThresholds ==
    (fn.op = "freshness" /\ fn.done) =>
        LET s == fn.sla
            m == fn.minutes_since
        IN IF s = 0 \/ m = -1 \/ m <= s
           THEN fn.found = <<>>
           ELSE /\ Len(fn.found) = 1
                /\ fn.found[1].type = "freshness_violation"
                /\ (m > 5 * s) => fn.found[1].severity = "critical"
                /\ (2 * s < m /\ m <= 5 * s) => fn.found[1].severity = "high"
                /\ (s < m /\ m <= 2 * s) => fn.found[1].severity = "medium"

\* an age of exactly five times the SLA: high
C14_Witness ==
    /\ fn.op = "freshness" /\ fn.done
    /\ fn.sla > 0
    /\ fn.minutes_since = 5 * fn.sla
    /\ Len(fn.found) = 1
    /\ fn.found[1].severity = "high"

\* the connector fails on check p: fetch_schema raises, or
\* fetch_last_update_time raises or has no timestamp
FetchFails(p) ==
    /\ warehouse # Changing
    /\ \/ p.check = "schema" /\ ~warehouse.schema_ok
       \/ p.check = "freshness" /\ warehouse.minutes[p.table] = -1

\* C15: when the connector raises during fetch_schema or
\* fetch_last_update_time, inspect returns none and leaves the store as it
\* was: no snapshot and no anomaly is written for that inspection.
C15_FetchFailureWritesNothing ==
    [][\A s \in Sessions :
         ( /\ pc[s] = "inspect"
           /\ (pc'[s] # "inspect" \/ pos'[s] # pos[s])
           /\ FetchFails(Plan[pos[s]]) )
         => /\ db' = db
            /\ txn' = txn
            /\ lock' = lock
            /\ pos'[s] = pos[s] + 1
            /\ pc'[s] \in {"inspect", "commit"}
            /\ tally'[s].anomalies = tally[s].anomalies]_vars

\* a failed fetch_schema in a cycle that has already written an anomaly
C15_Witness ==
    \E s \in Sessions :
        /\ pc[s] \in {"inspect", "commit"}
        /\ pos[s] >= 2
        /\ Plan[pos[s] - 1].check = "schema"
        /\ FetchFails(Plan[pos[s] - 1])
        /\ lock = s
        /\ Len(txn.anomalies) > Len(db.anomalies)
        /\ SnapshotsOf(txn, Plan[pos[s] - 1].table) = {}

\* C16: a failure while one table is processed (a sentinel inspection or
\* the handling of its anomaly raising) does not abort the cycle: the cycle
\* goes on to its commit and leaves only through scan.completed.
C16_FailureDoesNotAbort ==
    [][\A s \in Sessions :
         (pc[s] # "idle" /\ pc'[s] = "idle") =>
            /\ pc[s] = "committed"
            /\ cyc'[s].committed
            /\ Len(sent'[s]) = 1
            /\ sent'[s][1].event = "scan.completed"]_vars

\* C17: every connector constructed during a scan cycle is disposed before
\* the cycle exits, on every exit path, a raising sentinel included.
C17_ConnectorDisposedOnExit ==
    [][\A s \in Sessions :
         (pc[s] # "idle" /\ pc'[s] = "idle") => connector'[s] # "open"]_vars

\* C18: a scan cycle that runs to completion emits exactly one
\* scan.completed, after its commit, whose tables_scanned is the number of
\* monitored tables visited and whose anomalies_found is the number of
\* anomalies the sentinels returned in the cycle, each routed to the
\* orchestrator exactly once.
C18_ScanCompletedTotals ==
    [][\A s \in Sessions :
         LET returns == pc[s] = "committed" /\ pc'[s] = "idle"
         IN /\ returns =>
                 /\ cyc[s].committed
                 /\ Len(sent'[s]) = 1
                 /\ sent'[s][1].event = "scan.completed"
                 /\ sent'[s][1].tables_scanned = Cardinality(TableIds)
                 /\ sent'[s][1].anomalies_found
                      = Len(db.anomalies) - cyc[s].base
                 /\ sent'[s][1].anomalies_found = cyc[s].routed
            /\ ~returns =>
                 \A n \in 1..Len(sent'[s]) :
                     sent'[s][n].event = "scan.completed"
                         => sent'[s] = sent[s]]_vars

\* the second cycle has completed with one anomaly of its own, the first
\* cycle's anomaly being in the store already
C18_Witness ==
    \E s \in Sessions :
        /\ pc[s] = "idle"
        /\ cyc[s].committed
        /\ cyc[s].base = 1
        /\ Len(sent[s]) = 1
        /\ sent[s][1].event = "scan.completed"
        /\ sent[s][1].anomalies_found = 1
        /\ Len(db.anomalies) = 2

\* C19: the first iteration of the scan driver's loop performs a lineage
\* refresh, whatever the monotonic clock reads at start.
C19_FirstIterationRefreshes ==
    (driver.at = "sleep" /\ driver.iteration = 1)
        => driver.refreshed \in {"ok", "failed"}

\* one hop from a to b over a non-stale edge in the given direction
Hop(edges, a, b, direction) ==
    \E e \in edges :
        /\ ~e.stale
        /\ IF direction = "downstream" THEN e.source = a /\ e.target = b
           ELSE e.target = a /\ e.source = b

\* the nodes within k hops of the start
RECURSIVE Within(_, _, _, _)
Within(edges, start, k, direction) ==
    IF k = 0 THEN {start}
    ELSE LET R == Within(edges, start, k - 1, direction)
         IN R \cup {b \in LineageNodes : \E a \in R : Hop(edges, a, b, direction)}

\* C20: upstream(table, d) and downstream(table, d) return exactly the
\* nodes, other than the start, reachable from it in 1..d hops over
\* non-stale edges in that direction, each exactly once and with its
\* shortest hop distance as depth.
C20_BfsReachableWithinDepth ==
    (fn.op = "bfs" /\ fn.done) =>
        LET R == Within(fn.edges, fn.start, fn.depth, fn.direction) \ {fn.start}
            res == fn.results
        IN /\ {res[i].table : i \in 1..Len(res)} = R
           /\ Len(res) = Cardinality(R)
           /\ \A i \in 1..Len(res) :
                /\ res[i].depth \in 1..fn.depth
                /\ res[i].table
                     \in Within(fn.edges, fn.start, res[i].depth, fn.direction)
                /\ res[i].table
                     \notin Within(fn.edges, fn.start, res[i].depth - 1,
                                   fn.direction)

\* a traversal cut by the depth limit, on a graph with a stale edge, a cycle
\* through the start and a node with two paths of different length
C20_Witness ==
    /\ fn.op = "bfs" /\ fn.done
    /\ fn.direction = "downstream" /\ fn.start = 1 /\ fn.depth = 1
    /\ \E e \in fn.edges : e.stale
    /\ \E e \in fn.edges : ~e.stale /\ e.source = 3 /\ e.target = 1
    /\ \E e \in fn.edges : ~e.stale /\ e.source = 2 /\ e.target = 3
    /\ {fn.results[i].table : i \in 1..Len(fn.results)} = {2, 3}
    /\ 4 \in Within(fn.edges, 1, 2, "downstream")

\* the nodes reached from a by a walk of exactly k forward hops
RECURSIVE Walk(_, _, _)
Walk(edges, a, k) ==
    IF k = 0 THEN {a}
    ELSE {b \in LineageNodes :
            \E m \in Walk(edges, a, k - 1) : Hop(edges, m, b, "downstream")}

\* C21: path(source, target) returns a shortest forward path over non-stale
\* edges (first element source, last element target, each consecutive pair
\* joined by an edge, no shorter one existing) whenever target is reachable
\* from source by at least one edge, and none when it is not.
C21_ShortestForwardPath ==
    (fn.op = "path" /\ fn.done) =>
        LET N == Cardinality(LineageNodes)
            lengths == {k \in 1..N : fn.target \in Walk(fn.edges, fn.source, k)}
            p == fn.path
        IN IF lengths = {}
           THEN p = <<>>
           ELSE /\ Len(p) >= 2
                /\ p[1] = fn.source
                /\ p[Len(p)] = fn.target
                /\ \A i \in 1..(Len(p) - 1) :
                     Hop(fn.edges, p[i], p[i + 1], "downstream")
                /\ \A k \in lengths : Len(p) - 1 <= k

\* a path from a table back to itself round the cycle, a stale self-loop
\* not being taken
C21_Witness ==
    /\ fn.op = "path" /\ fn.done
    /\ fn.source = 1 /\ fn.target = 1
    /\ \E e \in fn.edges : e.stale /\ e.source = 1 /\ e.target = 1
    /\ fn.path = <<1, 3, 1>>

\* C23: LLMClient.diagnose ends after at most three LLM attempts: it returns
\* the parsed object of the first attempt that yields valid JSON, making no
\* further attempt, and returns none once three attempts have failed.
C23_AtMostThreeAttempts ==
    (fn.op = "diagnose" /\ fn.done) =>
        /\ fn.out.attempts <= 3
        /\ fn.out.raised = "none" =>
             LET valid == {i \in 1..3 : /\ fn.replies[i].kind = "content"
                                         /\ fn.replies[i].json}
             IN IF valid = {}
                THEN ~fn.out.returned /\ fn.out.attempts = 3
                ELSE /\ fn.out.returned
                     /\ fn.out.attempts = MinOf(valid)
                     /\ fn.out.keys = fn.replies[MinOf(valid)].keys

\* an error, then an empty content, then an object: returned by the third
\* attempt after one sleep of the first delay
C23_Witness ==
    /\ fn.op = "diagnose" /\ fn.done
    /\ fn.replies[1].kind = "api_error"
    /\ fn.replies[2].kind = "empty"
    /\ fn.out.returned
    /\ fn.out.attempts = 3
    /\ fn.out.sleeps = <<2, 0>>

\* C24: Architect.analyze always returns a Diagnosis and never raises
\* because of the LLM: with no usable LLM result (none after the retries, a
\* result short of a required field, a client without an API key) it
\* returns the fallback: confidence 0.0, the anomaly's severity, the table's
\* fqn as root_cause_table, one 'investigate' recommendation.
C24_AnalyzeNeverRaises ==
    (fn.op = "analyze" /\ fn.done) =>
        /\ fn.out.raised = "none"
        /\ (\/ ~fn.configured
            \/ \A i \in 1..Len(BackoffDelays) :
                 ~(RequiredKeys \subseteq fn.replies[i].keys))
           => fn.out.diagnosis = RuleBasedFallback(fn.severity, fn.table_found)

\* C32: after each failed LLM attempt of any retriable kind (timeout,
\* transient API error, empty content, malformed JSON) diagnose waits that
\* attempt's scheduled backoff delay (2s, 4s, 8s in attempt order) before the
\* next attempt; no retriable failure is retried without its backoff.
C32_BackoffBeforeEveryRetry ==
    (fn.op = "diagnose" /\ fn.done) =>
        \A i \in 1..(fn.out.attempts - 1) :
            (\/ fn.replies[i].kind \in {"api_error", "empty"}
             \/ fn.replies[i].kind = "content" /\ ~fn.replies[i].json)
               => fn.out.sleeps[i] = BackoffDelays[i]

\* C33: when an LLM attempt fails with a rate-limit error, diagnose waits
\* the error's retry_after hint if one is provided, and otherwise the
\* scheduled backoff for that attempt, before making the next attempt.
C33_RateLimitHonoursRetryAfter ==
    (fn.op = "diagnose" /\ fn.done) =>
        \A i \in 1..(fn.out.attempts - 1) :
            fn.replies[i].kind = "rate_limited" =>
                fn.out.sleeps[i] = IF fn.replies[i].retry_after # 0
                                   THEN fn.replies[i].retry_after
                                   ELSE BackoffDelays[i]

\* C34: on the create path with a successful diagnosis the incident's
\* severity after handle_anomaly equals diagnosis.severity unconditionally,
\* including when it ranks lower than the triggering anomaly's severity;
\* the value notified in incident.created and recorded in the report is
\* that adopted severity.
C34_DiagnosisSeverityAdopted ==
    \A s \in Sessions :
        (lastCall[s].path = "create" /\ lastCall[s].architect \in Severities)
        => LET inc == txn.incidents[lastCall[s].incident_id]
           IN /\ inc.severity = lastCall[s].architect
              /\ Len(sent[s]) = 1
              /\ sent[s][1].event = "incident.created"
              /\ sent[s][1].severity = lastCall[s].architect
              /\ inc.report # Null => inc.report[2] = lastCall[s].architect

\* a diagnosis of low severity for an anomaly of a higher one, the report
\* generated
C34_Witness ==
    \E s \in Sessions :
        /\ lastCall[s].path = "create"
        /\ lastCall[s].architect = "low"
        /\ Rank(txn.anomalies[lastCall[s].anomaly_id].severity) > Rank("low")
        /\ txn.incidents[lastCall[s].incident_id].severity = "low"
        /\ txn.incidents[lastCall[s].incident_id].report # Null
        /\ sent[s][1].severity = "low"

\* C35: every event broadcast by a scan cycle running on the driver's worker
\* thread (incident.created, incident.updated, scan.completed) is sent as
\* one {event, data} message to every subscriber connected at the time of
\* the broadcast.
C35_CycleEventsReachSubscribers ==
    fn.op = "broadcast" =>
        \A ws \in fn.subscribers :
            Cardinality({i \in 1..Len(fn.tasks) : fn.tasks[i] = ws}) = 1

\* C36: a merge changes only the incident's severity and updated_at: it
\* leaves the incident's status, anomaly_id, diagnosis, blast_radius,
\* remediation and report unchanged, inserts no incident, and never invokes
\* the architect, the executor or the report generator.
C36_MergeTouchesOnlySeverity ==
    [][\A s \in Sessions :
         (cyc'[s].routed = cyc[s].routed + 1 /\ lastCall'[s].path = "merge")
         => LET id == lastCall'[s].incident_id
            IN /\ Len(txn'.incidents) = Len(txn.incidents)
               /\ \A i \in 1..Len(txn.incidents) :
                    [txn'.incidents[i] EXCEPT !.severity = "any"]
                      = [txn.incidents[i] EXCEPT !.severity = "any"]
               /\ \A i \in 1..Len(txn.incidents) :
                    i # id => txn'.incidents[i] = txn.incidents[i]
               /\ txn'.anomalies = txn.anomalies
               /\ lastCall'[s].architect = "none"
               /\ ~lastCall'[s].executor_called]_vars

\* a merge that raised the severity of an incident carrying a diagnosis, a
\* remediation and a report
C36_Witness ==
    \E s \in Sessions :
        /\ lastCall[s].path = "merge"
        /\ txn.incidents[lastCall[s].incident_id].severity
             # lastCall[s].prev_severity
        /\ txn.incidents[lastCall[s].incident_id].status = "pending_review"
        /\ txn.incidents[lastCall[s].incident_id].diagnosis # Null
        /\ txn.incidents[lastCall[s].incident_id].remediation # Null
        /\ txn.incidents[lastCall[s].incident_id].report # Null

\* C37: after any sequence of handle_anomaly, approve and dismiss
\* operations an incident has resolved_at set if and only if its status is
\* resolved or dismissed; every incident in the open set has resolved_at,
\* resolved_by and dismiss_reason all null.
C37_ResolvedAtIffTerminal ==
    \A store \in {db, txn} :
        \A i \in 1..Len(store.incidents) :
            LET inc == store.incidents[i]
            IN /\ (inc.resolved_at # Null) <=> (inc.status \in Terminal)
               /\ inc.status \in OpenSet =>
                    /\ inc.resolved_at = Null
                    /\ inc.resolved_by = Null
                    /\ inc.dismiss_reason = Null

\* an incident dismissed and then approved, beside one still under review
C37_Witness ==
    /\ ops = 2
    /\ \E i, j \in 1..Len(db.incidents) :
         /\ db.incidents[i].status = "resolved"
         /\ db.incidents[i].dismiss_reason # Null
         /\ db.incidents[i].resolved_at # Null
         /\ db.incidents[j].status = "pending_review"
         /\ db.incidents[j].resolved_at = Null

\* C38: when a scan cycle's handle_anomaly is interleaved with an operator
\* approve or dismiss of the matching incident on another session, no
\* anomaly ends up merged into a resolved or dismissed incident: once both
\* have committed, every anomaly produced by the cycle either created an
\* incident or was merged into an incident that is still in the open set.
C38_NoMergeIntoTerminal ==
    \A s \in Sessions :
        (pc[s] = "committed" /\ cyc[s].committed) =>
            \A id \in cyc[s].merged : db.incidents[id].status \in OpenSet

\* C39: every lineage traversal (upstream, downstream, blast_radius, path)
\* terminates on any finite edge set, including graphs with cycles and
\* self-loops, and the start node never appears in its own upstream or
\* downstream result. A traversal that ends has queued each table at most
\* once: no table twice in a result, no table twice on a path before its
\* end.
C39_TraversalsTerminate ==
    /\ (fn.op = "bfs" /\ fn.done) =>
          \A res \in {fn.results,
                      Bfs(fn.edges, fn.start, 10, fn.direction, fn.asc)} :
             /\ \A i \in 1..Len(res) : res[i].table # fn.start
             /\ \A i, j \in 1..Len(res) :
                  res[i].table = res[j].table => i = j
             /\ Len(res) <= Cardinality(LineageNodes) - 1
    /\ (fn.op = "path" /\ fn.done) =>
          /\ Len(fn.path) <= Cardinality(LineageNodes) + 1
          /\ \A i, j \in 1..(Len(fn.path) - 1) :
               fn.path[i] = fn.path[j] => i = j

\* a downstream traversal from a table on a cycle that also has a
\* self-loop, deeper than the cycle is long
C39_Witness ==
    /\ fn.op = "bfs" /\ fn.done
    /\ fn.direction = "downstream" /\ fn.start = 1 /\ fn.depth = 3
    /\ \E e \in fn.edges : ~e.stale /\ e.source = 1 /\ e.target = 1
    /\ \E e \in fn.edges : ~e.stale /\ e.source = 1 /\ e.target = 3
    /\ \E e \in fn.edges : ~e.stale /\ e.source = 3 /\ e.target = 1
    /\ Len(fn.results) >= 1

\* C40: a scan cycle is all-or-nothing in the store: it commits once, after
\* all connections, so if the cycle raises before that commit none of the
\* snapshots, anomalies or incidents written during the cycle ever become
\* visible to other sessions.
C40_CycleAllOrNothing ==
    [][/\ \A s \in Sessions :
            (pc[s] \notin {"idle", "committed"} /\ pc'[s] = "idle")
               => db' = db
       /\ db' # db =>
            \E s \in Sessions :
               /\ pc[s] = "commit" /\ pc'[s] = "committed"
               /\ lock = s
               /\ db' = txn
       /\ \A s \in Sessions :
            \A i \in 1..Len(db'.snapshots) :
               db'.snapshots[i].captured_at \notin cyc'[s].lost.snapshots]_vars

\* a cycle that raised after flushing a snapshot and an incident, and a
\* cycle committed since
C40_Witness ==
    \E s, o \in Sessions :
        /\ cyc[s].lost.snapshots # {}
        /\ cyc[s].lost.incidents > 0
        /\ cyc[o].committed
        /\ Len(db.snapshots) > 0
        /\ \A i \in 1..Len(db.snapshots) :
             \E t \in cyc[s].lost.snapshots :
                db.snapshots[i].captured_at > t

\* C26: creating a connection whose name already exists, or a monitored
\* table whose (connection_id, schema, name) triple already exists, is
\* rejected with a 409 conflict and leaves the stored connections and
\* tables unchanged.
C26_DuplicateIsConflict ==
    [][LET r == registry'.response
           duplicate ==
               CASE r.op = "create_connection" ->
                      \E i \in 1..Len(registry.connections) :
                          registry.connections[i].name = r.name
                 [] r.op = "add_table" ->
                      \E i \in 1..Len(registry.tables) :
                          /\ registry.tables[i].connection_id = r.connection_id
                          /\ registry.tables[i].schema_name = r.schema_name
                          /\ registry.tables[i].table_name = r.table_name
                 [] OTHER -> FALSE
       IN (registry'.requests # registry.requests /\ duplicate)
          => /\ r.status = 409
             /\ registry'.connections = registry.connections
             /\ registry'.tables = registry.tables]_vars

\* C27: rediscover returns exactly one 'new' delta for each warehouse fqn
\* not enrolled for the connection and exactly one 'dropped' delta for each
\* enrolled fqn absent from the warehouse, no fqn in both and none at all
\* when in sync, and it never adds, removes or changes a monitored table.
C27_RediscoverDeltas ==
    [][(registry'.response.op = "rediscover" /\ registry' # registry) =>
        LET r == registry'.response
            enrolled == {registry.tables[i].schema_name \o <<".">>
                             \o registry.tables[i].table_name :
                           i \in {j \in 1..Len(registry.tables) :
                                    registry.tables[j].connection_id
                                      = r.connection_id}}
            present == {t.schema \o <<".">> \o t.name : t \in r.listing}
            DeltasFor(deltas, action, fqn) ==
                {i \in 1..Len(deltas) :
                    /\ deltas[i].action = action
                    /\ deltas[i].fully_qualified_name = fqn}
        IN /\ registry'.tables = registry.tables
           /\ registry'.connections = registry.connections
           /\ \A f \in present \ enrolled :
                /\ Cardinality(DeltasFor(r.deltas, "new", f)) = 1
                /\ DeltasFor(r.deltas, "dropped", f) = {}
           /\ \A f \in enrolled \ present :
                /\ Cardinality(DeltasFor(r.deltas, "dropped", f)) = 1
                /\ DeltasFor(r.deltas, "new", f) = {}
           /\ Len(r.deltas) = Cardinality(present \ enrolled)
                              + Cardinality(enrolled \ present)
           /\ present = enrolled => r.deltas = <<>>]_vars

\* a rediscovery for one connection while the other has the listed table
\* enrolled: one table new, one dropped
C27_Witness ==
    /\ registry.response.op = "rediscover"
    /\ Len(registry.response.deltas) = 2
    /\ registry.response.deltas[1].action = "new"
    /\ registry.response.deltas[2].action = "dropped"
    /\ \E i \in 1..Len(registry.tables) :
         /\ registry.tables[i].connection_id # registry.response.connection_id
         /\ registry.tables[i].fully_qualified_name
              = registry.response.deltas[1].fully_qualified_name

\* C22: across any sequence of lineage refreshes each (source, target) pair
\* has at most one stored edge, and for an existing edge neither
\* last_seen_at nor confidence ever decreases: an upsert sets confidence to
\* max(existing, new) and last_seen_at to the refresh time, and
\* first_seen_at never changes.
C22_UpsertKeepsOneEdge ==
    [][LET old == lineage.edges
           new == lineage'.edges
           RowOf(rows, source, target) ==
               IF \E i \in 1..Len(rows) :
                     rows[i].source = source /\ rows[i].target = target
               THEN CHOOSE i \in 1..Len(rows) :
                       rows[i].source = source /\ rows[i].target = target
               ELSE 0
       IN /\ \A i, j \in 1..Len(new) :
               (new[i].source = new[j].source /\ new[i].target = new[j].target)
                  => i = j
          /\ \A i \in 1..Len(old) :
               LET j == RowOf(new, old[i].source, old[i].target)
               IN /\ j # 0
                  /\ new[j].last_seen_at >= old[i].last_seen_at
                  /\ new[j].confidence >= old[i].confidence
                  /\ new[j].first_seen_at = old[i].first_seen_at
          /\ lineage'.refreshes # lineage.refreshes =>
               \A k \in 1..Len(fn'.batch) :
                 LET pe == fn'.batch[k]
                     i == RowOf(old, pe.source, pe.target)
                     j == RowOf(new, pe.source, pe.target)
                     parsed == {fn'.batch[m].confidence :
                                  m \in {n \in 1..Len(fn'.batch) :
                                           /\ fn'.batch[n].source = pe.source
                                           /\ fn'.batch[n].target = pe.target}}
                 IN /\ j # 0
                    /\ new[j].last_seen_at = lineage.now
                    /\ new[j].confidence =
                         MaxOf(parsed \cup (IF i = 0 THEN {}
                                            ELSE {old[i].confidence}))
                    /\ i = 0 => new[j].first_seen_at = lineage.now]_vars

\* an edge first seen at confidence 1.0 and seen again, a day later, at 0.8:
\* one row, the confidence kept, last_seen_at moved
C22_Witness ==
    /\ fn.op = "refresh"
    /\ \E k \in 1..Len(fn.batch) : fn.batch[k].confidence = 80
    /\ \E i \in 1..Len(lineage.edges) :
         /\ lineage.edges[i].source = fn.batch[1].source
         /\ lineage.edges[i].target = fn.batch[1].target
         /\ lineage.edges[i].confidence = 100
         /\ lineage.edges[i].first_seen_at < lineage.edges[i].last_seen_at
         /\ lineage.edges[i].last_seen_at = lineage.now

\* C30: no graph query (upstream, downstream, path, blast_radius,
\* full_graph) traverses or returns an edge last seen more than STALE_DAYS
\* before now; stale edges stay stored, and an edge is visible to queries
\* again as soon as an upsert refreshes its last_seen_at.
C30_StaleEdgesHidden ==
    [][LET seen == SelectSeq(lineage'.edges,
                             LAMBDA r : r.last_seen_at + STALE_DAYS
                                          >= lineage'.now)
           shown == GetFullGraph(lineage'.edges, lineage'.now).edges
       IN /\ fn'.op = "query" =>
               fn'.result = RunQuery(seen, lineage'.now, fn'.q)
          /\ \A i \in 1..Len(lineage.edges) :
               \E j \in 1..Len(lineage'.edges) :
                  /\ lineage'.edges[j].source = lineage.edges[i].source
                  /\ lineage'.edges[j].target = lineage.edges[i].target
          /\ lineage'.refreshes # lineage.refreshes =>
               \A k \in 1..Len(fn'.batch) :
                  \E e \in 1..Len(shown) :
                     /\ shown[e].source = fn'.batch[k].source
                     /\ shown[e].target = fn'.batch[k].target]_vars

\* a downstream query from a table with one edge gone stale and still
\* stored, and one edge seen exactly STALE_DAYS ago
C30_Witness ==
    /\ fn.op = "query"
    /\ fn.q.kind = "downstream"
    /\ fn.q.table = 1
    /\ \E i \in 1..Len(lineage.edges) :
         /\ lineage.edges[i].source = 1
         /\ lineage.edges[i].last_seen_at + STALE_DAYS = lineage.now
    /\ \E i \in 1..Len(lineage.edges) :
         lineage.edges[i].last_seen_at + STALE_DAYS < lineage.now
    /\ Len(fn.result) >= 1

\* C31: LineageRefresher.refresh never raises: a query-log entry whose SQL
\* cannot be parsed contributes no edges while the edges of all other
\* entries are still upserted and committed, an extractor failure returns
\* 0, and the returned number equals the count of edge upserts performed.
C31_RefreshNeverRaises ==
    [][lineage'.refreshes # lineage.refreshes =>
         LET parsable == SelectSeq(fn'.log, LAMBDA e : e.sql = "write")
         IN /\ fn'.raised = "none"
            /\ fn'.returned = Len(fn'.upserts)
            /\ fn'.extractor # "ok" => fn'.returned = 0
            /\ fn'.extractor = "ok" =>
                  /\ fn'.upserts = [i \in 1..Len(parsable) |->
                                      parsable[i].edges[1]]
                  /\ \A i \in 1..Len(parsable) :
                       \E j \in 1..Len(lineage'.edges) :
                          /\ lineage'.edges[j].source
                               = parsable[i].edges[1].source
                          /\ lineage'.edges[j].target
                               = parsable[i].edges[1].target
                          /\ lineage'.edges[j].last_seen_at
                               = lineage.now]_vars

\* C25: a broadcast iterates a snapshot of the subscriber list: a subscriber
\* connecting or disconnecting while a broadcast is in progress never makes
\* another connected subscriber be skipped or receive the message twice,
\* and the subscribers whose send failed are removed only after the
\* iteration, without affecting delivery to the others.
C25_BroadcastReachesEverySubscriber ==
    [][LET SendsTo(ws) == {i \in 1..Len(notifier.log) : notifier.log[i].ws = ws}
       IN (notifier.at = "sending" /\ notifier'.at = "idle") =>
            /\ \A ws \in notifier.start :
                 (\E i \in 1..Len(notifier.connections) :
                     notifier.connections[i] = ws)
                    => Cardinality(SendsTo(ws)) = 1
            /\ \A ws \in WebSockets : Cardinality(SendsTo(ws)) <= 1]_vars

\* C28: cancelling the scan driver never interrupts a scan cycle part-way:
\* a cycle that has started either runs to its single commit or fails as a
\* whole, and no new cycle starts after the cancellation.
C28_CancelLeavesCycleWhole ==
    [][/\ (driver'.cancelled /\ ~driver.cancelled) =>
            UNCHANGED <<db, txn, lock, pc, pos, pend, cur, cyc, connector>>
       /\ driver.cancelled => cycles' = cycles
       /\ db' # db => /\ pc["bg"] = "commit"
                       /\ ~cyc["bg"].committed
                       /\ cyc'["bg"].committed
                       /\ db' = txn]_vars

\* the driver cancelled while the cycle's thread was past the sentinel with
\* an anomaly to store; the cycle has committed it since
C28_Witness ==
    /\ driver.cancelled
    /\ driver.at = "cancelled"
    /\ driver.interrupted = "store"
    /\ pc["bg"] = "idle"
    /\ cyc["bg"].committed
    /\ Len(db.anomalies) >= 1

\* C29: an exception raised by one scan cycle or one lineage refresh never
\* stops the background driver: unless the driver is cancelled, after a
\* failed cycle or refresh the next scan cycle is eventually started, one
\* scan interval after the sleep began.
C29_DriverSurvivesFailure ==
    /\ \A i \in 1..(MaxIterations - 1) :
         ((driver.cycle_failed \/ driver.refreshed = "failed")
             /\ driver.iteration = i)
           ~> (driver.cancelled
                 \/ (driver.iteration = i + 1 /\ driver.at = "cycle"))
    /\ [][driver'.iteration # driver.iteration =>
            /\ driver'.iteration = driver.iteration + 1
            /\ driver'.monotonic = driver.monotonic + ScanInterval]_vars

\* the driver in its second iteration, whose cycle raised, after a first
\* iteration whose lineage refresh was due and raised
C29_Witness ==
    /\ driver.iteration = 2
    /\ driver.at = "lineage"
    /\ driver.cycle_failed
    /\ ~driver.cancelled
    /\ driver.last_lineage_refresh = 0
    /\ driver.monotonic >= LineageInterval + ScanInterval + 1

====
